---- MODULE Spec2Model ----
(***************************************************************************)
(* Model of scrappe-tout: the error classifier and retry executor          *)
(* (src/services/error.js, which also holds the retry service) and the     *)
(* markdown post-processor (src/core/postprocessor.js,                     *)
(* src/core/navigation-cleaner.js).                                        *)
(*                                                                         *)
(* Three specifications share the module:                                  *)
(*   SpecClassify  - classifyError / isRetryableError on one error          *)
(*   Spec          - one run of executeWithRetry                           *)
(*   SpecNormalize - one run of postProcessMarkdown on one text            *)
(***************************************************************************)
EXTENDS Integers, Sequences, FiniteSets, TLC

VARIABLES
    \* ---- classifier (SpecClassify)
    err,          \* the error handed to classifyError / isRetryableError
    kind,         \* result of classifyError, "" before the call
    retryable,    \* result of isRetryableError
    cpc,          \* "input" | "classified" | "judged"
    \* ---- retry executor (Spec)
    policy,       \* options of executeWithRetry after defaulting
    attempt,      \* loop variable `attempt`
    rpc,          \* "loop" | "running" | "sleeping" | "returned" | "raised"
    lastError,    \* `lastError`
    calls,        \* attempt numbers passed to operation, in order
    failures,     \* the error each finished failed attempt threw, in order
    inFlight,     \* number of operation invocations not yet settled
    observerLog,  \* arguments of every onRetry invocation, in order
    sleeps,       \* delays passed to sleep(), in order
    events,       \* trace of "call" | "fail" | "observer" | "sleep" | "wake"
    outcome,      \* what executeWithRetry returned or threw
    \* ---- post-processor (SpecNormalize)
    markdown,        \* argument of postProcessMarkdown, as a list of lines
    convertHtmlTags, \* options.convertHtmlTags after defaulting
    step,            \* number of passes of postProcessMarkdown done, 0..6
    processed,       \* `processed`, as a list of lines
    passes,          \* <<name, text before, text after>> of each pass run
    \* ---- navigation detector (SpecNav)
    navLines,     \* `lines` of removeNavigationMenus
    navI,         \* loop variable `i`, 1-based
    skipMode,     \* `skipMode`: 0 normal, 1 in menu list, 2 in menu section
    cleaned,      \* `cleaned`
    navTrace,     \* per scanned line: state before, rule taken, kept, state after
    navResult,    \* the returned text, <<>> until the function returns
    \* ---- pipeline (SpecPipeline)
    pipeOp,       \* "processAllUrls" | "scrapeUrls"
    urls,         \* number of input URLs; documents are 1..urls
    pipeI,        \* loop variable `i` (index of the current document / batch)
    docStage,     \* per document: where its processing stands
    docTries,     \* per document: fetch attempts started
    results,      \* `results`, in push order
    pipeLog,      \* <<event, document>> in order of occurrence
    pipePc,       \* "loop" | "awaitUrl" | "awaitBatch" | "returned" | "exited"
    \* ---- end of the run (SpecPipeline)
    stats,        \* result of generateStats(results)
    exitCode,     \* exit status of the process, -1 while it runs
    \* ---- retry policies (SpecPolicy)
    polSource,    \* where the policy comes from
    polInput,     \* the retry fields as given
    polResult,    \* the policy after defaulting / validation
    polPc,        \* "input" | "accepted" | "rejected" | "ran"
    polInvoked,   \* invocations of the operation by the first loop test
    \* ---- command line and the write of one document (SpecCli)
    argv,         \* process.argv.slice(2)
    argI,         \* index of parseArgs' loop, 1-based
    args,         \* the object parseArgs builds
    cliPc,        \* "parse" | "parsed" | "help" | "named" | "pipeline" | "done"
    targetExists, \* the document's target file exists before the run
    writeResult,  \* what writeMarkdown did: "none" | "written" | "skipped"
    isTTY,        \* process.stdin.isTTY
    nameFileExists, \* scrap-folder-name.txt can be read
    nameSource,    \* where determineRunName took the name from
    \* ---- output folder (SpecWriter)
    wUrls,        \* the URLs of the run, as indexes into UrlList, in order
    wI,           \* index of the document being written
    wSkip,        \* the skipExisting writeMarkdown works with
    fs,           \* content of each file: NoFile, OldContent or a URL index
    wLog,          \* one record per writeMarkdown call that returned
    \* ---- conversion (SpecConvert)
    convThrown,    \* what the conversion threw inside the operation, in order
    \* ---- the operation of scrapeUrl (SpecScrape)
    browsers,     \* one entry per chromium.launch() that resolved
    opPc,         \* position inside the operation
    opPending     \* what the operation is about to settle with

classifyVars == <<err, kind, retryable, cpc>>
retryVars == <<policy, attempt, rpc, lastError, calls, failures, inFlight,
               observerLog, sleeps, events, outcome>>
normVars == <<markdown, convertHtmlTags, step, processed, passes>>
navVars == <<navLines, navI, skipMode, cleaned, navTrace, navResult>>
pipeVars == <<pipeOp, urls, pipeI, docStage, docTries, results, pipeLog, pipePc>>
exitVars == <<stats, exitCode>>
polVars == <<polSource, polInput, polResult, polPc, polInvoked>>
cliVars == <<argv, argI, args, cliPc, targetExists, writeResult,
             isTTY, nameFileExists, nameSource>>
writerVars == <<wUrls, wI, wSkip, fs, wLog>>
convVars == <<convThrown>>
browserVars == <<browsers, opPc, opPending>>
vars == <<classifyVars, retryVars, normVars, navVars, pipeVars,
         exitVars,
         polVars,
         cliVars,
         writerVars,
         convVars,
         browserVars>>

Min(a, b) == IF a <= b THEN a ELSE b

(***************************************************************************)
(* Errors.  A JavaScript error is modelled by the properties the code      *)
(* reads: name, code, status, message, context, and whether it is an        *)
(* instance of ScrapingError.  An absent (undefined) code or message is     *)
(* "", an absent status is 0: all are falsy for `if (error.code)`.          *)
(***************************************************************************)
ErrorType ==
    [NETWORK |-> "NETWORK_ERROR", TIMEOUT |-> "TIMEOUT_ERROR",
     PARSE |-> "PARSE_ERROR", VALIDATION |-> "VALIDATION_ERROR",
     RATE_LIMIT |-> "RATE_LIMIT_ERROR", FILE_EXISTS |-> "FILE_EXISTS_ERROR"]

ErrorKinds ==
    {ErrorType.NETWORK, ErrorType.TIMEOUT, ErrorType.PARSE,
     ErrorType.VALIDATION, ErrorType.RATE_LIMIT, ErrorType.FILE_EXISTS}

\* context of an error that has none, or none of the keys the code reads
NoContext ==
    [nonRetryable |-> FALSE, attemptsMade |-> 0, totalAttempts |-> 0,
     message |-> ""]

NetworkCodes == {"ETIMEDOUT", "ENOTFOUND", "ECONNRESET", "ECONNREFUSED"}

RetryableStatus == {408, 429, 500, 502, 503, 504}

Names == {"Error", "TimeoutError"}
Codes == NetworkCodes \cup {"", "EACCES"}
Statuses == {0, 404, 408, 429, 499, 500, 502, 503, 504, 599}
Messages == {"", "boom", "Rate Limit exceeded", "TOO MANY REQUESTS",
             "rate-limited"}

\* String.prototype.toLowerCase on the messages of the model
toLowerCase(s) ==
    CASE s = "Rate Limit exceeded" -> "rate limit exceeded"
      [] s = "TOO MANY REQUESTS" -> "too many requests"
      [] OTHER -> s

\* String.prototype.includes on the (lowercased message, phrase) pairs
includes(s, phrase) ==
    \/ s = "rate limit exceeded" /\ phrase = "rate limit"
    \/ s = "too many requests" /\ phrase = "too many requests"

\* plain errors: thrown by libraries, never instances of ScrapingError
PlainError(n, c, s, m) ==
    [isScraping |-> FALSE, name |-> n, code |-> c, status |-> s,
     message |-> m, context |-> NoContext, wrapped |-> FALSE]

\* new ScrapingError(message, code, context, originalError)
ScrapingError(m, c, ctx, hasOriginal) ==
    [isScraping |-> TRUE, name |-> "ScrapingError", code |-> c, status |-> 0,
     message |-> m, context |-> ctx, wrapped |-> hasOriginal]

PlainErrors ==
    {PlainError(n, c, s, m) : n \in Names, c \in Codes, s \in Statuses,
                              m \in Messages}

\* ScrapingErrors as the program builds them: the code is an ErrorType
ScrapingErrors ==
    {ScrapingError(m, c, [NoContext EXCEPT !.nonRetryable = nr], TRUE) :
        m \in {"boom", "Rate Limit exceeded"}, c \in ErrorKinds,
        nr \in BOOLEAN}

AllErrors == PlainErrors \cup ScrapingErrors

classifyErrorStatusFirst(error) ==
    IF error.name = "TimeoutError" THEN ErrorType.TIMEOUT
    ELSE IF error.status # 0 /\ error.status = 429 THEN ErrorType.RATE_LIMIT
    ELSE IF error.status # 0 /\ error.status >= 500 THEN ErrorType.NETWORK
    ELSE IF error.code # "" /\ error.code \in NetworkCodes
        THEN ErrorType.NETWORK
    ELSE IF /\ error.message # ""
            /\ \/ includes(toLowerCase(error.message), "rate limit")
               \/ includes(toLowerCase(error.message), "too many requests")
        THEN ErrorType.RATE_LIMIT
    ELSE ErrorType.PARSE

classifyError(error) ==
    IF error.name = "TimeoutError" THEN ErrorType.TIMEOUT
    ELSE IF error.code # "" /\ error.code \in NetworkCodes
        THEN ErrorType.NETWORK
    ELSE IF error.status # 0 /\ error.status = 429 THEN ErrorType.RATE_LIMIT
    ELSE IF error.status # 0 /\ error.status >= 500 THEN ErrorType.NETWORK
    ELSE IF /\ error.message # ""
            /\ \/ includes(toLowerCase(error.message), "rate limit")
               \/ includes(toLowerCase(error.message), "too many requests")
        THEN ErrorType.RATE_LIMIT
    ELSE ErrorType.PARSE

isRetryableErrorFlagLast(error) ==
    IF error.code # "" /\ error.code \in NetworkCodes THEN TRUE
    ELSE IF error.status # 0 THEN error.status \in RetryableStatus
    ELSE IF error.name = "TimeoutError" THEN TRUE
    ELSE IF error.context.nonRetryable THEN FALSE
    ELSE FALSE

isRetryableError(error) ==
    IF error.context.nonRetryable THEN FALSE
    ELSE IF error.code # "" /\ error.code \in NetworkCodes THEN TRUE
    ELSE IF error.status # 0 THEN error.status \in RetryableStatus
    ELSE IF error.name = "TimeoutError" THEN TRUE
    ELSE FALSE

wrapErrorAlways(error, code, context) ==
    ScrapingError(error.message, code, context, TRUE)

wrapError(error, code, context) ==
    IF error.isScraping THEN error
    ELSE ScrapingError(error.message, code, context, TRUE)

(***************************************************************************)
(* SpecClassify: classifyError and isRetryableError applied to one error.  *)
(***************************************************************************)
RetryIdle ==
    /\ policy = [maxAttempts |-> 1, baseDelay |-> 1, maxDelay |-> 1,
                 onRetry |-> FALSE]
    /\ attempt = 0
    /\ rpc = "idle"
    /\ lastError = PlainError("Error", "", 0, "")
    /\ calls = <<>>
    /\ failures = <<>>
    /\ inFlight = 0
    /\ observerLog = <<>>
    /\ sleeps = <<>>
    /\ events = <<>>
    /\ outcome = [type |-> "none"]

ClassifyIdle ==
    /\ err = PlainError("Error", "", 0, "")
    /\ kind = ""
    /\ retryable = FALSE
    /\ cpc = "idle"

NormalizeIdle ==
    /\ markdown = <<"">>
    /\ convertHtmlTags = TRUE
    /\ step = 0
    /\ processed = <<"">>
    /\ passes = <<>>

NavIdle ==
    /\ navLines = <<"">>
    /\ navI = 0
    /\ skipMode = 0
    /\ cleaned = <<>>
    /\ navTrace = <<>>
    /\ navResult = <<>>

PipeIdle ==
    /\ pipeOp = "none"
    /\ urls = 0
    /\ pipeI = 0
    /\ docStage = <<>>
    /\ docTries = <<>>
    /\ results = <<>>
    /\ pipeLog = <<>>
    /\ pipePc = "idle"

NoStats == [total |-> 0, successful |-> 0, failed |-> 0, skipped |-> 0,
            errors |-> <<>>]

ExitIdle ==
    /\ stats = NoStats
    /\ exitCode = -1

\* a property that is absent (undefined)
Undefined == -1000000

NoPolicy == [maxAttempts |-> Undefined, baseDelay |-> Undefined,
             maxDelay |-> Undefined]

PolicyIdle ==
    /\ polSource = "none"
    /\ polInput = NoPolicy
    /\ polResult = NoPolicy
    /\ polPc = "idle"
    /\ polInvoked = 0

\* the object parseArgs starts from
InitialArgs ==
    [runName |-> "", outputDir |-> "", overwrite |-> FALSE,
     continue |-> TRUE, showHelp |-> FALSE]

CliIdle ==
    /\ argv = <<>>
    /\ argI = 0
    /\ args = InitialArgs
    /\ cliPc = "idle"
    /\ targetExists = FALSE
    /\ writeResult = "none"
    /\ isTTY = FALSE
    /\ nameFileExists = FALSE
    /\ nameSource = "none"

WriterIdle ==
    /\ wUrls = <<>>
    /\ wI = 0
    /\ wSkip = TRUE
    /\ fs = <<>>
    /\ wLog = <<>>

ConvertIdle == convThrown = <<>>

\* the operation has not thrown
NoThrow == [type |-> "result"]

BrowserIdle ==
    /\ browsers = <<>>
    /\ opPc = "idle"
    /\ opPending = NoThrow

InitClassify ==
    /\ err \in AllErrors
    /\ kind = ""
    /\ retryable = FALSE
    /\ cpc = "input"
    /\ RetryIdle
    /\ NormalizeIdle
    /\ NavIdle
    /\ PipeIdle
    /\ ExitIdle
    /\ PolicyIdle
    /\ CliIdle
    /\ WriterIdle
    /\ ConvertIdle
    /\ BrowserIdle

Classify ==
    /\ cpc = "input"
    /\ kind' = classifyError(err)
    /\ cpc' = "classified"
    /\ UNCHANGED <<err, retryable, retryVars, normVars, navVars, pipeVars,
                   exitVars,
                   polVars,
                   cliVars,
                   writerVars,
                   convVars,
                   browserVars>>

Judge ==
    /\ cpc = "classified"
    /\ retryable' = isRetryableError(err)
    /\ cpc' = "judged"
    /\ UNCHANGED <<err, kind, retryVars, normVars, navVars, pipeVars,
                   exitVars,
                   polVars,
                   cliVars,
                   writerVars,
                   convVars,
                   browserVars>>

NextClassify == Classify \/ Judge

SpecClassify == InitClassify /\ [][NextClassify]_vars

(***************************************************************************)
(* Spec: one run of executeWithRetry(operation, options).                  *)
(* The operation is the environment: each invocation either resolves or    *)
(* throws one of OpErrors.  Delays are kept in units of 1/JitterScale ms   *)
(* so that the jitter factor stays an integer.                             *)
(***************************************************************************)
MaxAttemptsBound == 3

JitterScale == 1000

\* 1 + (Math.random() * 0.2 - 0.1), times JitterScale; Math.random() < 1
Jitters == {900, 1000, 1099}

BaseDelays == {100, 1000}
MaxDelays == {500, 1500}

Policies ==
    [maxAttempts : 1..MaxAttemptsBound, baseDelay : BaseDelays,
     maxDelay : MaxDelays, onRetry : BOOLEAN]

\* what the operations of the program and its callers throw
OpErrors ==
    {PlainError("Error", "", 0, "boom"),
     PlainError("Error", "ECONNRESET", 0, "boom"),
     PlainError("Error", "", 429, "boom"),
     PlainError("Error", "", 404, "boom"),
     PlainError("Error", "", 408, "boom"),
     PlainError("TimeoutError", "", 0, "boom"),
     PlainError("Error", "", 0, "Rate Limit exceeded"),
     ScrapingError("boom", ErrorType.PARSE, NoContext, TRUE),
     ScrapingError("boom", ErrorType.NETWORK,
                   [NoContext EXCEPT !.nonRetryable = TRUE,
                                     !.attemptsMade = 1], TRUE),
     [PlainError("Error", "ECONNRESET", 503, "boom")
        EXCEPT !.context.nonRetryable = TRUE]}

calculateDelayUncapped(attemptNo, baseDelay, maxDelay, jitter) ==
    baseDelay * 2^(attemptNo - 1) * jitter

\* the delay in 1/JitterScale ms; jitter stands for the Math.random() draw
calculateDelay(attemptNo, baseDelay, maxDelay, jitter) ==
    Min(baseDelay * 2^(attemptNo - 1) * jitter, maxDelay * JitterScale)

\* `if (attempt >= maxAttempts) break;`
IsLastAttemptOffByOne(attemptNo, maxAttempts) == attemptNo + 1 >= maxAttempts

IsLastAttempt(attemptNo, maxAttempts) == attemptNo >= maxAttempts

\* the branch the catch block takes
CatchDecisionIgnoresVerdict(error, attemptNo, maxAttempts) ==
    IF IsLastAttempt(attemptNo, maxAttempts) THEN "exhausted" ELSE "retry"

CatchDecision(error, attemptNo, maxAttempts) ==
    IF IsLastAttempt(attemptNo, maxAttempts) THEN "exhausted"
    ELSE IF ~isRetryableError(error) THEN "nonRetryable"
    ELSE "retry"

NonRetryableContextZeroBased(attemptNo) ==
    [NoContext EXCEPT !.nonRetryable = TRUE, !.attemptsMade = attemptNo - 1]

\* context of the throw for a non-retryable error
NonRetryableContext(attemptNo) ==
    [NoContext EXCEPT !.nonRetryable = TRUE, !.attemptsMade = attemptNo]

\* context of the throw after the loop
ExhaustedContext(maxAttempts) ==
    [NoContext EXCEPT
        !.totalAttempts = maxAttempts,
        !.message = "Operation failed after " \o ToString(maxAttempts)
                    \o " attempts"]

Init ==
    /\ policy \in Policies
    /\ attempt = 1
    /\ rpc = "loop"
    /\ lastError = PlainError("Error", "", 0, "")
    /\ calls = <<>>
    /\ failures = <<>>
    /\ inFlight = 0
    /\ observerLog = <<>>
    /\ sleeps = <<>>
    /\ events = <<>>
    /\ outcome = [type |-> "none"]
    /\ ClassifyIdle
    /\ NormalizeIdle
    /\ NavIdle
    /\ PipeIdle
    /\ ExitIdle
    /\ PolicyIdle
    /\ CliIdle
    /\ WriterIdle
    /\ ConvertIdle
    /\ BrowserIdle

\* an observer told the number of the attempt after the next one
OnRetryArgsSkipsOne(attemptNo, maxAttempts, delay, error) ==
    [attempt |-> attemptNo, nextAttempt |-> attemptNo + 2,
     maxAttempts |-> maxAttempts, delay |-> delay, error |-> error]

\* the argument of onRetry
OnRetryArgs(attemptNo, maxAttempts, delay, error) ==
    [attempt |-> attemptNo, nextAttempt |-> attemptNo + 1,
     maxAttempts |-> maxAttempts, delay |-> delay, error |-> error]

\* `operation(attempt)` invoked again while the timer of sleep() still runs
StartAttemptDuringSleep ==
    /\ rpc \in {"loop", "sleeping"}
    /\ attempt <= policy.maxAttempts
    /\ calls' = Append(calls, attempt)
    /\ inFlight' = inFlight + 1
    /\ events' = Append(events, "call")
    /\ rpc' = "running"
    /\ UNCHANGED <<policy, attempt, lastError, failures, observerLog, sleeps,
                   outcome, classifyVars, normVars, navVars, pipeVars,
                   exitVars,
                   polVars,
                   cliVars,
                   writerVars,
                   convVars,
                   browserVars>>

\* loop test passes and `operation(attempt)` is invoked
StartAttempt ==
    /\ rpc = "loop"
    /\ attempt <= policy.maxAttempts
    /\ calls' = Append(calls, attempt)
    /\ inFlight' = inFlight + 1
    /\ events' = Append(events, "call")
    /\ rpc' = "running"
    /\ UNCHANGED <<policy, attempt, lastError, failures, observerLog, sleeps,
                   outcome, classifyVars, normVars, navVars, pipeVars,
                   exitVars,
                   polVars,
                   cliVars,
                   writerVars,
                   convVars,
                   browserVars>>

\* the awaited operation resolves: `return result`
returnResult ==
    /\ rpc = "running"
    /\ inFlight' = inFlight - 1
    /\ outcome' = [type |-> "returned", result |-> attempt]
    /\ rpc' = "returned"
    /\ UNCHANGED <<policy, attempt, lastError, calls, failures, observerLog,
                   sleeps, events>>

\* an operation of a caller resolves
OperationSucceeds ==
    /\ returnResult
    /\ UNCHANGED <<classifyVars, normVars, navVars, pipeVars, exitVars,
                   polVars, cliVars, writerVars, convVars, browserVars>>

\* the awaited operation rejects with `error`: the catch block, up to the
\* throw or up to `await sleep(delay)`
catchBlock(error, jitter) ==
    /\ rpc = "running"
    /\ inFlight' = inFlight - 1
    /\ lastError' = error
    /\ failures' = Append(failures, error)
    /\ LET decision == CatchDecision(error, attempt, policy.maxAttempts)
           delay == calculateDelay(attempt, policy.baseDelay,
                                   policy.maxDelay, jitter)
       IN CASE decision = "exhausted" ->
               \* break, then the throw after the loop
               /\ outcome' = [type |-> "raised",
                              error |-> wrapError(error, ErrorType.NETWORK,
                                         ExhaustedContext(policy.maxAttempts))]
               /\ rpc' = "raised"
               /\ events' = Append(events, "fail")
               /\ UNCHANGED <<observerLog, sleeps>>
            [] decision = "nonRetryable" ->
               /\ outcome' = [type |-> "raised",
                              error |-> wrapError(error, ErrorType.NETWORK,
                                         NonRetryableContext(attempt))]
               /\ rpc' = "raised"
               /\ events' = Append(events, "fail")
               /\ UNCHANGED <<observerLog, sleeps>>
            [] decision = "retry" ->
               /\ observerLog' =
                    IF policy.onRetry
                    THEN Append(observerLog,
                            OnRetryArgs(attempt, policy.maxAttempts,
                                        delay, error))
                    ELSE observerLog
               /\ sleeps' = Append(sleeps, delay)
               /\ events' = events \o
                    (IF policy.onRetry THEN <<"fail", "observer", "sleep">>
                     ELSE <<"fail", "sleep">>)
               /\ rpc' = "sleeping"
               /\ UNCHANGED outcome
    /\ UNCHANGED <<policy, attempt, calls>>

\* an operation of a caller rejects with `error`
OperationFails(error, jitter) ==
    /\ catchBlock(error, jitter)
    /\ UNCHANGED <<classifyVars, normVars, navVars, pipeVars, exitVars,
                   polVars, cliVars, writerVars, convVars,
                   browserVars>>

\* the timer of sleep() fires: `attempt++` and back to the loop test
WakeUp ==
    /\ rpc = "sleeping"
    /\ attempt' = attempt + 1
    /\ events' = Append(events, "wake")
    /\ rpc' = "loop"
    /\ UNCHANGED <<policy, lastError, calls, failures, inFlight, observerLog,
                   sleeps, outcome, classifyVars, normVars, navVars, pipeVars,
                   exitVars,
                   polVars,
                   cliVars,
                   writerVars,
                   convVars,
                   browserVars>>

Next ==
    \/ StartAttempt
    \/ OperationSucceeds
    \/ \E error \in OpErrors, jitter \in Jitters : OperationFails(error, jitter)
    \/ WakeUp

Spec == Init /\ [][Next]_vars

(***************************************************************************)
(* SpecConvert: the executeWithRetry run of convertToMarkdown.  The        *)
(* operation catches whatever htmlToMarkdown or postProcessMarkdown throws *)
(* and throws wrapError(error, ErrorType.PARSE, {inputSize, converter}).   *)
(***************************************************************************)

\* the options convertToMarkdown passes
ConvertOptions ==
    [maxAttempts |-> 2, baseDelay |-> 100, maxDelay |-> 500,
     onRetry |-> FALSE]

\* what the conversion may throw inside the operation
ConvertThrows == PlainErrors

InitConvert ==
    /\ policy = ConvertOptions
    /\ attempt = 1
    /\ rpc = "loop"
    /\ lastError = PlainError("Error", "", 0, "")
    /\ calls = <<>>
    /\ failures = <<>>
    /\ inFlight = 0
    /\ observerLog = <<>>
    /\ sleeps = <<>>
    /\ events = <<>>
    /\ outcome = [type |-> "none"]
    /\ convThrown = <<>>
    /\ ClassifyIdle
    /\ NormalizeIdle
    /\ NavIdle
    /\ PipeIdle
    /\ ExitIdle
    /\ PolicyIdle
    /\ CliIdle
    /\ WriterIdle
    /\ BrowserIdle

\* the conversion throws `error`; the operation's catch wraps it and throws,
\* and the catch block of executeWithRetry takes over
ConversionFails(error, jitter) ==
    /\ convThrown' = Append(convThrown, error)
    /\ catchBlock(wrapError(error, ErrorType.PARSE, NoContext), jitter)
    /\ UNCHANGED <<classifyVars, normVars, navVars, pipeVars, exitVars,
                   polVars, cliVars, writerVars,
                   browserVars>>

\* the timer of sleep() is not among the steps: catchBlock never takes the
\* retry branch for a wrapped error, so no state has rpc = "sleeping"
NextConvert ==
    \/ StartAttempt
    \/ OperationSucceeds
    \/ \E error \in ConvertThrows, jitter \in Jitters :
          ConversionFails(error, jitter)

SpecConvert == InitConvert /\ [][NextConvert]_vars

(***************************************************************************)
(* SpecScrape: the executeWithRetry run of scrapeUrl, with the steps of    *)
(* its operation: launch, the outer try, the inner try around the          *)
(* navigation, the inner finally and the outer finally.                    *)
(***************************************************************************)

\* the options scrapeUrl passes
ScrapeOptions ==
    [maxAttempts |-> 3, baseDelay |-> 1000, maxDelay |-> 10000,
     onRetry |-> TRUE]

\* what Playwright may throw
ScrapeThrows ==
    {PlainError("TimeoutError", "", 0, "boom"),
     PlainError("Error", "ECONNRESET", 0, "boom"),
     PlainError("Error", "", 0, "boom")}

\* what page.close() and context.close() may throw
CloseThrows == {PlainError("Error", "", 0, "Target closed")}

Throw(error) == [type |-> "error", error |-> error]

InitScrape ==
    /\ policy = ScrapeOptions
    /\ attempt = 1
    /\ rpc = "loop"
    /\ lastError = PlainError("Error", "", 0, "")
    /\ calls = <<>>
    /\ failures = <<>>
    /\ inFlight = 0
    /\ observerLog = <<>>
    /\ sleeps = <<>>
    /\ events = <<>>
    /\ outcome = [type |-> "none"]
    /\ browsers = <<>>
    /\ opPc = "launch"
    /\ opPending = NoThrow
    /\ ClassifyIdle
    /\ NormalizeIdle
    /\ NavIdle
    /\ PipeIdle
    /\ ExitIdle
    /\ PolicyIdle
    /\ CliIdle
    /\ WriterIdle
    /\ ConvertIdle

\* a step of the operation that changes nothing of executeWithRetry
OperationStep ==
    /\ rpc = "running"
    /\ UNCHANGED <<retryVars, classifyVars, normVars, navVars, pipeVars, exitVars,
                   polVars, cliVars, writerVars, convVars>>

\* `await chromium.launch(...)` resolves
LaunchSucceeds ==
    /\ opPc = "launch"
    /\ browsers' = Append(browsers, "open")
    /\ opPc' = "outerTry"
    /\ UNCHANGED opPending
    /\ OperationStep

\* `await chromium.launch(...)` rejects: the operation rejects
LaunchFails(error, jitter) ==
    /\ rpc = "running"
    /\ opPc = "launch"
    /\ catchBlock(error, jitter)
    /\ UNCHANGED <<browserVars, classifyVars, normVars, navVars, pipeVars, exitVars,
                   polVars, cliVars, writerVars, convVars>>

\* newContext, setupResourceBlocking and newPage resolve
PageOpens ==
    /\ opPc = "outerTry"
    /\ opPc' = "innerTry"
    /\ UNCHANGED <<browsers, opPending>>
    /\ OperationStep

\* newContext, setupResourceBlocking or newPage rejects
PageFails(error) ==
    /\ opPc = "outerTry"
    /\ opPending' = Throw(error)
    /\ opPc' = "outerFinally"
    /\ UNCHANGED browsers
    /\ OperationStep

\* navigateAndExtract and page.title() resolve: `return { html, ... }`
NavigationSucceeds ==
    /\ opPc = "innerTry"
    /\ opPc' = "innerFinally"
    /\ UNCHANGED <<browsers, opPending>>
    /\ OperationStep

\* navigateAndExtract or page.title() rejects
NavigationFails(error) ==
    /\ opPc = "innerTry"
    /\ opPending' = Throw(error)
    /\ opPc' = "innerFinally"
    /\ UNCHANGED browsers
    /\ OperationStep

\* page.close() and context.close() resolve
PageCloses ==
    /\ opPc = "innerFinally"
    /\ opPc' = "outerFinally"
    /\ UNCHANGED <<browsers, opPending>>
    /\ OperationStep

\* page.close() or context.close() rejects: its error replaces the outcome
PageCloseFails(error) ==
    /\ opPc = "innerFinally"
    /\ opPending' = Throw(error)
    /\ opPc' = "outerFinally"
    /\ UNCHANGED browsers
    /\ OperationStep

\* the outer finally returns without closing the browser
BrowserStaysOpen ==
    /\ opPc = "outerFinally"
    /\ opPc' = "settle"
    /\ UNCHANGED <<browsers, opPending>>
    /\ OperationStep

\* `await browser.close()` in the outer finally
BrowserCloses ==
    /\ opPc = "outerFinally"
    /\ browsers' = [browsers EXCEPT ![Len(browsers)] = "closed"]
    /\ opPc' = "settle"
    /\ UNCHANGED opPending
    /\ OperationStep

\* the operation resolves
ScrapeResolves ==
    /\ opPc = "settle"
    /\ opPending = NoThrow
    /\ returnResult
    /\ UNCHANGED <<browserVars, classifyVars, normVars, navVars, pipeVars, exitVars,
                   polVars, cliVars, writerVars, convVars>>

\* the operation rejects with the pending error
ScrapeRejects(jitter) ==
    /\ rpc = "running"
    /\ opPc = "settle"
    /\ opPending # NoThrow
    /\ catchBlock(opPending.error, jitter)
    /\ opPc' = "launch"
    /\ opPending' = NoThrow
    /\ UNCHANGED <<browsers, classifyVars, normVars, navVars, pipeVars, exitVars,
                   polVars, cliVars, writerVars, convVars>>

NextScrape ==
    \/ StartAttempt
    \/ LaunchSucceeds
    \/ \E error \in ScrapeThrows, jitter \in Jitters :
          LaunchFails(error, jitter)
    \/ PageOpens
    \/ \E error \in ScrapeThrows : PageFails(error)
    \/ NavigationSucceeds
    \/ \E error \in ScrapeThrows : NavigationFails(error)
    \/ PageCloses
    \/ \E error \in CloseThrows : PageCloseFails(error)
    \/ BrowserCloses
    \/ ScrapeResolves
    \/ \E jitter \in Jitters : ScrapeRejects(jitter)
    \/ WakeUp

SpecScrape == InitScrape /\ [][NextScrape]_vars

(***************************************************************************)
(* Properties of the retry executor (checked under Spec).                   *)
(***************************************************************************)
AllFailuresRetryable ==
    \A i \in 1..Len(failures) : isRetryableError(failures[i])

\* C1: with maxAttempts = N and an operation whose every failure is
\* retryable, the operation is invoked with attempts 1, 2, ... in order and
\* never more than N times; once N attempts have failed, executeWithRetry
\* has raised after exactly N invocations, and the raised error's
\* context.totalAttempts is N.
C1_ExhaustsAfterN ==
    AllFailuresRetryable =>
        /\ \A i \in 1..Len(calls) : calls[i] = i
        /\ Len(calls) <= policy.maxAttempts
        /\ Len(failures) = policy.maxAttempts =>
              /\ rpc = "raised"
              /\ outcome.type = "raised"
              /\ outcome.error.context.totalAttempts = policy.maxAttempts
        /\ rpc = "raised" =>
              /\ Len(calls) = policy.maxAttempts
              /\ Len(failures) = policy.maxAttempts

C1_Witness ==
    /\ rpc = "raised"
    /\ AllFailuresRetryable
    /\ policy.maxAttempts = MaxAttemptsBound
    /\ calls = [i \in 1..MaxAttemptsBound |-> i]
    /\ outcome.error.context.totalAttempts = MaxAttemptsBound

\* C2: when attempt n fails with an error for which isRetryableError is
\* false, that failure is the last one: executeWithRetry has raised after
\* exactly n invocations (also when n < maxAttempts), and the failure is the
\* last event: no observer call and no sleep follows it.
C2_NonRetryableStops ==
    \A n \in 1..Len(failures) :
        ~isRetryableError(failures[n]) =>
            /\ n = Len(failures)
            /\ rpc = "raised"
            /\ Len(calls) = n
            /\ events[Len(events)] = "fail"
            /\ Len(sleeps) = n - 1
            /\ Len(observerLog) = IF policy.onRetry THEN n - 1 ELSE 0

C2_Witness ==
    /\ rpc = "raised"
    /\ Len(failures) = 2
    /\ policy.maxAttempts = 3
    /\ policy.onRetry
    /\ ~isRetryableError(failures[2])
    /\ Len(calls) = 2
    /\ Len(observerLog) = 1

StoppedOnNonRetryable ==
    /\ rpc = "raised"
    /\ Len(failures) >= 1
    /\ ~isRetryableError(failures[Len(failures)])

\* C3 as stated: whenever executeWithRetry stops because attempt n failed
\* with a non-retryable error, for any n in 1..maxAttempts and any error, the
\* raised error is a ScrapingError with context.nonRetryable = true and
\* context.attemptsMade = n.
C3_Original ==
    StoppedOnNonRetryable =>
        /\ outcome.error.isScraping
        /\ outcome.error.context.nonRetryable
        /\ outcome.error.context.attemptsMade = Len(failures)

\* C3 amended: the nonRetryable / attemptsMade = n context is set when
\* n < maxAttempts and the failing error is not already a ScrapingError.  An
\* error that already is a ScrapingError is raised as it was thrown, and at
\* n = maxAttempts a wrapped error carries totalAttempts = maxAttempts and
\* neither nonRetryable nor attemptsMade.
C3_NonRetryableContext ==
    StoppedOnNonRetryable =>
        LET n == Len(failures)
            e == failures[n]
        IN /\ outcome.error.isScraping
           /\ e.isScraping => outcome.error = e
           /\ (~e.isScraping /\ n < policy.maxAttempts) =>
                 /\ outcome.error.context.nonRetryable
                 /\ outcome.error.context.attemptsMade = n
                 /\ outcome.error.context.totalAttempts = 0
                 /\ outcome.error.message = e.message
           /\ (~e.isScraping /\ n = policy.maxAttempts) =>
                 /\ ~outcome.error.context.nonRetryable
                 /\ outcome.error.context.attemptsMade = 0
                 /\ outcome.error.context.totalAttempts = n

C3_Witness ==
    /\ StoppedOnNonRetryable
    /\ Len(failures) = 2
    /\ policy.maxAttempts = 3
    /\ ~failures[2].isScraping
    /\ outcome.error.context.nonRetryable
    /\ outcome.error.context.attemptsMade = 2

\* C4: under maxAttempts = 3, an operation that fails on attempts 1 and 2
\* with errors that classifyError maps to RATE_LIMIT (by status 429 or by a
\* rate-limit phrase in the message) and then succeeds is never given up on:
\* executeWithRetry raises nothing and returns the third attempt's result.
C4_RateLimitThenSuccess ==
    (/\ policy.maxAttempts = 3
     /\ Len(failures) \in 1..2
     /\ \A i \in 1..Len(failures) :
            classifyError(failures[i]) = ErrorType.RATE_LIMIT)
    => /\ rpc # "raised"
       /\ (rpc = "returned" /\ Len(failures) = 2)
             => outcome = [type |-> "returned", result |-> 3]

\* C5: every delay computed before a retry, as passed to the observer and
\* to sleep, is at most policy.maxDelay, for every policy, attempt and
\* jitter.
C5_DelayCapped ==
    /\ \A i \in 1..Len(sleeps) : sleeps[i] <= policy.maxDelay * JitterScale
    /\ \A i \in 1..Len(observerLog) :
          observerLog[i].delay <= policy.maxDelay * JitterScale

C5_Witness ==
    /\ Len(sleeps) = 2
    /\ policy.onRetry
    /\ sleeps[1] < policy.maxDelay * JitterScale
    /\ sleeps[2] = policy.maxDelay * JitterScale
    /\ observerLog[2].delay = sleeps[2]
    /\ policy.baseDelay * 2 * 900 > policy.maxDelay * JitterScale

RetryableKinds == {ErrorType.NETWORK, ErrorType.TIMEOUT, ErrorType.RATE_LIMIT}

\* C7: executeWithRetry starts another attempt after a failure only when
\* classifyError maps that failure to NETWORK, TIMEOUT or RATE_LIMIT, and a
\* failure classified PARSE is never judged retryable.
C7_RetriesOnlyTransientKinds ==
    /\ \A i \in 1..Len(failures) :
          i < Len(calls) => classifyError(failures[i]) \in RetryableKinds
    /\ \A i \in 1..Len(failures) :
          classifyError(failures[i]) = ErrorType.PARSE
             => ~isRetryableError(failures[i])

\* C22: at most one invocation of the operation is in flight; attempt k + 1
\* is invoked only after attempt k has failed and the sleep for the delay
\* computed after attempt k has ended; an invocation is in flight until it
\* resolves or rejects (executeWithRetry neither returns, raises nor sleeps
\* while one is); and the operation is invoked at most maxAttempts times,
\* with attempt numbers 1, 2, ... in order.
C22_OneAttemptAtATime ==
    /\ inFlight <= 1
    /\ inFlight = 1 <=> rpc = "running"
    /\ Len(calls) <= policy.maxAttempts
    /\ \A k \in 1..Len(calls) : calls[k] = k
    /\ Len(failures) + inFlight + (IF rpc = "returned" THEN 1 ELSE 0)
          = Len(calls)
    /\ Len(calls) > 0 => Len(sleeps) >= Len(calls) - 1
    /\ \A j \in 1..Len(events) :
          events[j] = "call" =>
             \/ j = 1
             \/ /\ j > 3
                /\ events[j - 1] = "wake"
                /\ events[j - 2] = "sleep"
                /\ events[j - 3] \in {"fail", "observer"}
                /\ \E i \in 1..(j - 3) : events[i] = "fail"

\* the third attempt is in flight after two failures and two sleeps
C22_Witness ==
    /\ Len(calls) = 3
    /\ rpc = "running"
    /\ inFlight = 1
    /\ Len(failures) = 2
    /\ Len(sleeps) = 2

\* C23: when an observer is given, it is invoked exactly once for each
\* failed attempt a that is followed by another attempt, after the failure
\* and before the sleep, with attempt = a, nextAttempt = a + 1 <=
\* maxAttempts, the maxAttempts of the policy, the delay that is then slept
\* and the error of attempt a; it is not invoked after a success, after a
\* non-retryable failure or after the last attempt.
C23_ObserverPerRetry ==
    /\ ~policy.onRetry => observerLog = <<>>
    /\ policy.onRetry =>
          /\ Len(observerLog) = Len(sleeps)
          /\ Len(observerLog) =
                Cardinality({a \in 1..Len(failures) : a < Len(calls)})
                + (IF rpc = "sleeping" \/ (rpc = "loop" /\ attempt > 1)
                   THEN 1 ELSE 0)
          /\ \A a \in 1..Len(observerLog) :
                /\ observerLog[a].attempt = a
                /\ observerLog[a].nextAttempt = a + 1
                /\ observerLog[a].nextAttempt <= policy.maxAttempts
                /\ observerLog[a].maxAttempts = policy.maxAttempts
                /\ observerLog[a].delay = sleeps[a]
                /\ observerLog[a].error = failures[a]
                /\ isRetryableError(failures[a])
          /\ \A j \in 1..Len(events) :
                events[j] = "observer" =>
                    /\ j > 1 /\ events[j - 1] = "fail"
                    /\ j < Len(events) /\ events[j + 1] = "sleep"
          /\ rpc = "returned" => Len(observerLog) = Len(failures)
          /\ rpc = "raised" => Len(observerLog) = Len(failures) - 1

\* an observed run: two retries, then the third attempt fails for good
C23_Witness ==
    /\ policy.onRetry
    /\ rpc = "raised"
    /\ Len(failures) = 3
    /\ Len(observerLog) = 2
    /\ observerLog[2].nextAttempt = 3

\* C28: a ScrapingError is never modified: wrapError gives back the error
\* it was given, with its code, message and context, whenever that error
\* is a ScrapingError, and the error executeWithRetry raises after a
\* ScrapingError failed is that very error.
C28_ClassifiedErrorUnchanged ==
    /\ \A e \in ScrapingErrors, c \in ErrorKinds :
          /\ wrapError(e, c, NonRetryableContext(1)) = e
          /\ wrapError(e, c, ExhaustedContext(1)) = e
    /\ rpc = "raised" /\ lastError.isScraping =>
          /\ outcome.error = lastError
          /\ outcome.error = failures[Len(failures)]
    /\ \A i \in 1..Len(observerLog) :
          \E j \in 1..Len(failures) : observerLog[i].error = failures[j]

\* a second attempt failed with a ScrapingError that an inner
\* executeWithRetry had raised after its own first attempt, and the error
\* raised still carries the inner context
C28_Witness ==
    /\ rpc = "raised"
    /\ attempt = 2
    /\ lastError.isScraping
    /\ lastError.context.nonRetryable
    /\ outcome.error.context.attemptsMade = 1

\* errors of every code, status and name with context.nonRetryable set
FlaggedErrors ==
    {[e EXCEPT !.context.nonRetryable = TRUE] : e \in AllErrors}

\* C29: isRetryableError is false for every error whose context.nonRetryable
\* is set, whatever its code, status or name; after a failure with such an
\* error executeWithRetry starts no further attempt, and the error a run
\* raised because a failure was not retryable is not retryable for an
\* enclosing run either.
C29_NonRetryableFlagWins ==
    /\ \A e \in FlaggedErrors : ~isRetryableError(e)
    /\ \A i \in 1..Len(failures) :
          failures[i].context.nonRetryable =>
              /\ i = Len(failures)
              /\ Len(calls) = i
              /\ rpc = "raised"
    /\ rpc = "raised" /\ ~isRetryableError(lastError) =>
          ~isRetryableError(outcome.error)

\* a failure whose code and status are retryable but whose context is
\* flagged ended the run before the attempts were used up
C29_Witness ==
    /\ rpc = "raised"
    /\ attempt < policy.maxAttempts
    /\ lastError.context.nonRetryable
    /\ lastError.code \in NetworkCodes
    /\ lastError.status \in RetryableStatus

(***************************************************************************)
(* Properties of the classifier (checked under SpecClassify).              *)
(***************************************************************************)
\* C6: for an error whose context.nonRetryable is not set, isRetryableError
\* is true exactly when the error has a code in the network fault set, or a
\* status in {408, 429, 500, 502, 503, 504}, or is classified TIMEOUT.
C6_RetryableIff ==
    (cpc = "judged" /\ ~err.context.nonRetryable) =>
        (retryable <=>
            \/ err.code \in {"ETIMEDOUT", "ENOTFOUND", "ECONNRESET",
                             "ECONNREFUSED"}
            \/ err.status \in {408, 429, 500, 502, 503, 504}
            \/ kind = ErrorType.TIMEOUT)

RateLimitPhraseMessages == {"Rate Limit exceeded", "TOO MANY REQUESTS"}

\* C8: classifyError returns the kind of the first matching rule, in the
\* order TimeoutError -> TIMEOUT, network fault code -> NETWORK, status 429
\* -> RATE_LIMIT, status >= 500 -> NETWORK, rate-limit phrase in the message
\* (any case) -> RATE_LIMIT, else PARSE; the result is one of the six kinds.
C8_FirstMatchingRule ==
    cpc # "input" =>
        LET rules ==
              << <<err.name = "TimeoutError", ErrorType.TIMEOUT>>,
                 <<err.code \in {"ETIMEDOUT", "ENOTFOUND", "ECONNRESET",
                                 "ECONNREFUSED"}, ErrorType.NETWORK>>,
                 <<err.status = 429, ErrorType.RATE_LIMIT>>,
                 <<err.status >= 500, ErrorType.NETWORK>>,
                 <<err.message \in RateLimitPhraseMessages,
                   ErrorType.RATE_LIMIT>>,
                 <<TRUE, ErrorType.PARSE>> >>
            first == CHOOSE i \in 1..6 :
                        rules[i][1] /\ \A j \in 1..(i - 1) : ~rules[j][1]
        IN /\ kind = rules[first][2]
           /\ kind \in ErrorKinds

C8_Witness ==
    /\ cpc = "classified"
    /\ err.name = "Error"
    /\ err.code = "ECONNRESET"
    /\ err.status = 429
    /\ err.message = "TOO MANY REQUESTS"
    /\ kind = ErrorType.NETWORK

(***************************************************************************)
(* The markdown post-processor.  A text is the list of its lines           *)
(* (markdown.split("\n")); the empty text is the one-line list <<"">>.     *)
(* Lines are concrete strings of a small alphabet; each regular            *)
(* expression and string method of the source is tabulated on that         *)
(* alphabet and on the lines the passes can produce from it.               *)
(***************************************************************************)
LogoLine == "[![files logo](/assets/logo.svg)files Docs](/)"
TocA == "- [A](#a)"
TocB == "  - [B](#b)"
TocIntro == "- [Introduction](#introduction)"
DefListLine == "<dt>Term</dt><dd>Desc</dd>"
ScriptLine == "<script>x()</script>"
CustomTagLine == "<a-scene>x</a-scene>"
NumberedNavLine == "1. [Home](/)"
WsLine == "  "
DashLine == "- item"
LogoItem == "- Site logo"
NavigateItem == "- Navigate to Docs"

\* String.prototype.trimEnd
trimEnd(line) ==
    CASE line = "Closing text  " -> "Closing text"
      [] line = WsLine -> ""
      [] OTHER -> line

\* String.prototype.trimStart
trimStart(line) ==
    CASE line = TocB -> "- [B](#b)"
      [] line = WsLine -> ""
      [] OTHER -> line

\* String.prototype.trim
trim(line) == trimStart(trimEnd(line))

\* lines.join("\n"), as the list of the text's pieces: "\n" for a newline
\* character, and each non-empty line
RECURSIVE joinFrom(_, _)
joinFrom(lines, i) ==
    IF i > Len(lines) THEN <<>>
    ELSE (IF i > 1 THEN <<"\n">> ELSE <<>>)
         \o (IF lines[i] = "" THEN <<>> ELSE <<lines[i]>>)
         \o joinFrom(lines, i + 1)

join(lines) == joinFrom(lines, 1)

\* text.split("\n")
RECURSIVE splitFrom(_, _, _)
splitFrom(pieces, i, current) ==
    IF i > Len(pieces) THEN <<current>>
    ELSE IF pieces[i] = "\n"
         THEN <<current>> \o splitFrom(pieces, i + 1, "")
         ELSE splitFrom(pieces, i + 1, pieces[i])

split(pieces) == splitFrom(pieces, 1, "")

newlines(n) == [k \in 1..n |-> "\n"]

\* text.replace(/\n{3,}/g, "\n\n")
RECURSIVE collapseFrom(_, _, _)
collapseFrom(pieces, i, run) ==
    LET flushed == IF run >= 3 THEN newlines(2) ELSE newlines(run)
    IN IF i > Len(pieces) THEN flushed
       ELSE IF pieces[i] = "\n" THEN collapseFrom(pieces, i + 1, run + 1)
       ELSE flushed \o <<pieces[i]>> \o collapseFrom(pieces, i + 1, 0)

collapseNewlines(pieces) == collapseFrom(pieces, 1, 0)

isWhitespace(piece) == piece = "\n" \/ trim(piece) = ""

\* text.trim() on the joined text
RECURSIVE trimTextStart(_)
trimTextStart(pieces) ==
    IF pieces = <<>> THEN <<>>
    ELSE IF isWhitespace(Head(pieces)) THEN trimTextStart(Tail(pieces))
    ELSE <<trimStart(Head(pieces))>> \o Tail(pieces)

RECURSIVE trimTextEnd(_)
trimTextEnd(pieces) ==
    IF pieces = <<>> THEN <<>>
    ELSE LET n == Len(pieces)
         IN IF isWhitespace(pieces[n])
            THEN trimTextEnd(SubSeq(pieces, 1, n - 1))
            ELSE SubSeq(pieces, 1, n - 1) \o <<trimEnd(pieces[n])>>

trimText(pieces) == trimTextEnd(trimTextStart(pieces))

\* /^\[!\[.*?logo.*?\]\(.*?\).*?\]\(\/\)/ or
\* /^\[!\[.*?\]\(\/assets\/images\/branding\/.*?\)/ on the trimmed line
isHeaderNavLine(line) == trim(line) \in {LogoLine}

RECURSIVE headerNavFrom(_, _)
headerNavFrom(lines, i) ==
    IF i > Len(lines) THEN <<>>
    ELSE (IF isHeaderNavLine(lines[i]) THEN <<>> ELSE <<lines[i]>>)
         \o headerNavFrom(lines, i + 1)

removeHeaderNav(lines) == split(join(headerNavFrom(lines, 1)))

\* /^[-\s]*-\s+\[.+?\]\(#.+\)/ on the trimmed line
isTocItem(line) == trim(line) \in {TocA, "- [B](#b)", TocIntro}

TocMinItems == 2
TocMaxItems == 30

\* the loop of removeDuplicateTOC from line i on
RECURSIVE tocLoop(_, _, _, _, _, _)
tocLoop(lines, i, result, inToc, tocLines, seenToc) ==
    IF i > Len(lines) THEN result
    ELSE IF isTocItem(lines[i])
    THEN tocLoop(lines, i + 1, result, TRUE,
                 IF ~inToc THEN <<lines[i]>> ELSE Append(tocLines, lines[i]),
                 seenToc)
    ELSE IF inToc
    THEN LET keep == /\ ~seenToc
                     /\ Len(tocLines) < TocMaxItems
                     /\ Len(tocLines) > TocMinItems
         IN tocLoop(lines, i + 1,
                    (IF keep THEN result \o tocLines ELSE result)
                        \o <<lines[i]>>,
                    FALSE, <<>>, seenToc \/ keep)
    ELSE tocLoop(lines, i + 1, Append(result, lines[i]), FALSE, tocLines,
                 seenToc)

removeDuplicateTOC(lines) ==
    split(join(tocLoop(lines, 1, <<>>, FALSE, <<>>, FALSE)))

\* the three replaces of convertDefinitionLists on one line: the paired
\* <dt>..</dt><dd>..</dd> becomes "**term**\n: desc\n"
definitionListLine(line) ==
    IF line = DefListLine THEN <<"**Term**", ": Desc", "">> ELSE <<line>>

RECURSIVE definitionListsFrom(_, _)
definitionListsFrom(lines, i) ==
    IF i > Len(lines) THEN <<>>
    ELSE definitionListLine(lines[i]) \o definitionListsFrom(lines, i + 1)

\* no line of the alphabet is ":" followed by white space only, so the
\* final replace of /\n:\s*\n/ matches nowhere
convertDefinitionLists(lines) == definitionListsFrom(lines, 1)

\* the replaces of stripRemainingHtml on one line
\* <script>..</script> is removed by the tagsToRemove loop; the tags of
\* CustomTagLine pass the last replace, whose look-ahead accepts the allowed
\* name "a" followed by the word boundary before "-"
stripHtmlLine(line) ==
    IF line = ScriptLine THEN "" ELSE line

stripRemainingHtml(lines) == [i \in 1..Len(lines) |-> stripHtmlLine(lines[i])]

\* NAVIGATION_KEYWORDS.some(k => trimmedLine.toLowerCase().includes(k))
hasNavigationKeyword(trimmedLine) == trimmedLine \in {"Learn more"}

\* MENU_SECTION_HEADERS.some(pattern => pattern.test(trimmedLine))
isMenuSectionHeader(trimmedLine) == trimmedLine \in {"apps"}

\* trimmedLine.startsWith("-")
startsWithDash(trimmedLine) ==
    trimmedLine \in {TocA, "- [B](#b)", TocIntro, DashLine, LogoItem,
                     NavigateItem}

MenuListWindow == 20

\* the phrases of the isMenuList test that the lowercased line includes
menuPhrases(line) ==
    CASE line = TocIntro -> {"#introduction"}
      [] line = LogoLine -> {"logo", "files"}
      [] line = LogoItem -> {"logo"}
      [] line = NavigateItem -> {"navigate to"}
      [] OTHER -> {}

\* lines.slice(i, Math.min(i + 20)).join("\n").toLowerCase() and the
\* isMenuList test on it; no phrase contains a newline
isMenuList(lines, i) ==
    LET window == {lines[k] : k \in i..Min(i + MenuListWindow - 1, Len(lines))}
        has(phrase) == \E l \in window : phrase \in menuPhrases(l)
    IN \/ has("logo") /\ has("navigate to")
       \/ has("install") /\ has("files")
       \/ has("user interface")
       \/ has("component catalog")
       \/ has("palette") /\ has("view_module")
       \/ has("#introduction")
       \/ has("#create-a-new")

\* the four `continue` patterns at the end of the loop body
isDroppedLink(trimmedLine) == trimmedLine \in {NumberedNavLine}

\* one iteration of the loop of removeNavigationMenus on line i in state
\* mode: the branch taken, the state afterwards, and whether the line is
\* pushed to `cleaned`
navStep(lines, i, mode) ==
    LET trimmedLine == trim(lines[i])
        hasNext == i + 1 <= Len(lines)
        listMode == IF /\ mode = 1
                       /\ ~startsWithDash(trimmedLine)
                       /\ trimmedLine # ""
                    THEN 0 ELSE mode
    IN IF hasNavigationKeyword(trimmedLine)
       THEN [rule |-> "keyword", mode |-> mode, keep |-> FALSE]
       ELSE IF isMenuSectionHeader(trimmedLine)
       THEN [rule |-> "sectionHeader", mode |-> 2, keep |-> FALSE]
       ELSE IF /\ startsWithDash(trimmedLine)
               /\ hasNext
               /\ startsWithDash(trim(lines[i + 1]))
               /\ isMenuList(lines, i)
       THEN [rule |-> "menuList", mode |-> 1, keep |-> FALSE]
       ELSE IF listMode = 1
       THEN [rule |-> "inMenuList", mode |-> 1, keep |-> FALSE]
       ELSE IF listMode = 2
       THEN [rule |-> "inMenuSection",
             mode |-> IF /\ trimmedLine = ""
                         /\ hasNext
                         /\ ~startsWithDash(trim(lines[i + 1]))
                      THEN 0 ELSE 2,
             keep |-> FALSE]
       ELSE IF isDroppedLink(trimmedLine)
       THEN [rule |-> "droppedLink", mode |-> listMode, keep |-> FALSE]
       ELSE [rule |-> "retain", mode |-> listMode, keep |-> TRUE]

\* the loop of removeNavigationMenus from line i on
RECURSIVE navLoop(_, _, _, _)
navLoop(lines, i, kept, mode) ==
    IF i > Len(lines) THEN kept
    ELSE LET r == navStep(lines, i, mode)
         IN navLoop(lines, i + 1,
                    IF r.keep THEN Append(kept, lines[i]) ELSE kept, r.mode)

\* the statements after the loop without the trim of the result
navFinishUntrimmed(kept) == split(collapseNewlines(join(kept)))

\* the statements after the loop: join, collapse, trim
navFinish(kept) == split(trimText(collapseNewlines(join(kept))))

removeNavigationMenus(lines) == navFinish(navLoop(lines, 1, <<>>, 0))

cleanWhitespace(lines) ==
    LET collapsed == split(collapseNewlines(join(lines)))
    IN [i \in 1..Len(collapsed) |-> trimEnd(collapsed[i])]

\* postProcessMarkdown(markdown, {convertHtmlTags}) as one function
postProcessMarkdown(lines, convertTags) ==
    LET structured ==
            convertDefinitionLists(removeDuplicateTOC(removeHeaderNav(lines)))
        stripped == IF convertTags THEN stripRemainingHtml(structured)
                    ELSE structured
    IN cleanWhitespace(removeNavigationMenus(stripped))

(***************************************************************************)
(* SpecNormalize: postProcessMarkdown(markdown, options), one action per   *)
(* step of its body.                                                       *)
(***************************************************************************)
MaxSegments == 3

tocBlock(line, n) == [k \in 1..n |-> line]

\* the pieces a source text is assembled from
Segments ==
    {<<"Intro text">>, <<"Closing text  ">>, <<"">>, <<LogoLine>>,
     <<"Learn more">>, <<"apps">>, <<NumberedNavLine>>, <<DefListLine>>,
     <<ScriptLine>>, tocBlock(TocA, 1), tocBlock(TocA, 3),
     tocBlock(TocB, 5), tocBlock(TocIntro, 3), <<WsLine>>,
     tocBlock(TocA, 2), <<WsLine, "", WsLine>>, <<CustomTagLine>>}

RECURSIVE flatten(_)
flatten(segments) ==
    IF segments = <<>> THEN <<>>
    ELSE Head(segments) \o flatten(Tail(segments))

Texts ==
    {flatten(segs) : segs \in UNION {[1..n -> Segments] : n \in 1..MaxSegments}}

InitNormalize ==
    /\ markdown \in Texts
    /\ convertHtmlTags \in BOOLEAN
    /\ step = 0
    /\ processed = markdown
    /\ passes = <<>>
    /\ ClassifyIdle
    /\ RetryIdle
    /\ NavIdle
    /\ PipeIdle
    /\ ExitIdle
    /\ PolicyIdle
    /\ CliIdle
    /\ WriterIdle
    /\ ConvertIdle
    /\ BrowserIdle

RunPass(n, name, output) ==
    /\ step = n - 1
    /\ processed' = output
    /\ passes' = Append(passes, <<name, processed, output>>)
    /\ step' = n
    /\ UNCHANGED <<markdown, convertHtmlTags, classifyVars, retryVars, navVars,
                   pipeVars,
                   exitVars,
                   polVars,
                   cliVars,
                   writerVars,
                   convVars,
                   browserVars>>

StepRemoveHeaderNav ==
    RunPass(1, "removeHeaderNav", removeHeaderNav(processed))

StepRemoveDuplicateTOC ==
    RunPass(2, "removeDuplicateTOC", removeDuplicateTOC(processed))

StepConvertDefinitionLists ==
    RunPass(3, "convertDefinitionLists", convertDefinitionLists(processed))

StepStripRemainingHtml ==
    /\ convertHtmlTags
    /\ RunPass(4, "stripRemainingHtml", stripRemainingHtml(processed))

StepSkipStripRemainingHtml ==
    /\ ~convertHtmlTags
    /\ step = 3
    /\ step' = 4
    /\ UNCHANGED <<markdown, convertHtmlTags, processed, passes,
                   classifyVars, retryVars, navVars,
                   pipeVars,
                   exitVars,
                   polVars,
                   cliVars,
                   writerVars,
                   convVars,
                   browserVars>>

StepRemoveNavigationMenus ==
    RunPass(5, "removeNavigationMenus", removeNavigationMenus(processed))

\* the whitespace pass run in place of the chrome pass
StepCleanWhitespaceEarly ==
    RunPass(5, "cleanWhitespace", cleanWhitespace(processed))

StepCleanWhitespace ==
    RunPass(6, "cleanWhitespace", cleanWhitespace(processed))

NextNormalize ==
    \/ StepRemoveHeaderNav
    \/ StepRemoveDuplicateTOC
    \/ StepConvertDefinitionLists
    \/ StepStripRemainingHtml
    \/ StepSkipStripRemainingHtml
    \/ StepRemoveNavigationMenus
    \/ StepCleanWhitespace

SpecNormalize == InitNormalize /\ [][NextNormalize]_vars

(***************************************************************************)
(* Properties of the post-processor (checked under SpecNormalize).         *)
(***************************************************************************)
\* a maximal run of TOC-item lines of `lines` starts at s and ends at e
IsTocBlock(lines, s, e) ==
    /\ 1 <= s /\ s <= e /\ e <= Len(lines)
    /\ \A k \in s..e : isTocItem(lines[k])
    /\ s = 1 \/ ~isTocItem(lines[s - 1])
    /\ e = Len(lines) \/ ~isTocItem(lines[e + 1])

\* ... and has more than 2 and fewer than 30 items
IsSizedTocBlock(lines, s, e) ==
    /\ IsTocBlock(lines, s, e)
    /\ e - s + 1 > 2
    /\ e - s + 1 < 30

HasSizedTocBlock(lines) ==
    \E s \in 1..Len(lines), e \in 1..Len(lines) : IsSizedTocBlock(lines, s, e)

FirstSizedTocBlock(lines) ==
    CHOOSE b \in (1..Len(lines)) \X (1..Len(lines)) :
        /\ IsSizedTocBlock(lines, b[1], b[2])
        /\ \A s \in 1..(b[1] - 1), e \in 1..Len(lines) :
              ~IsSizedTocBlock(lines, s, e)

WithoutTocItems(lines) == SelectSeq(lines, LAMBDA l : ~isTocItem(l))

TocItemsOf(lines) == SelectSeq(lines, isTocItem)

\* C10: the TOC-deduplication pass emits the first block of TOC-item lines
\* whose item count is strictly between 2 and 30 verbatim and at its place
\* among the other lines, also when the block ends the text, and removes
\* every TOC-item line after it.
C10_FirstTocBlockKept ==
    step >= 2 =>
        LET in == passes[2][2]
            out == passes[2][3]
        IN HasSizedTocBlock(in) =>
            LET b == FirstSizedTocBlock(in)
                block == SubSeq(in, b[1], b[2])
                before == SubSeq(in, 1, b[1] - 1)
                after == SubSeq(in, b[2] + 1, Len(in))
            IN \E k \in 0..Len(out) :
                  /\ k + Len(block) <= Len(out)
                  /\ SubSeq(out, k + 1, k + Len(block)) = block
                  /\ WithoutTocItems(SubSeq(out, 1, k))
                        = WithoutTocItems(before)
                  /\ SubSeq(out, k + Len(block) + 1, Len(out))
                        = WithoutTocItems(after)

BodyTexts == {"Intro text", "Closing text"}

trimAll(lines) == [i \in 1..Len(lines) |-> trim(lines[i])]

\* the body text of a run of lines, without surrounding white space
BodyOf(lines) == SelectSeq(trimAll(lines), LAMBDA l : l \in BodyTexts)

\* C9: when the document holds a TOC block with more than 2 and fewer than
\* 30 items, the output of postProcessMarkdown holds exactly one TOC block,
\* the first such block of the input, between the body text that preceded
\* it and the body text that followed it, and all body text is kept.
C9_OneTocAndAllBody ==
    (step = 6 /\ HasSizedTocBlock(markdown)) =>
        LET b == FirstSizedTocBlock(markdown)
            block == trimAll(SubSeq(markdown, b[1], b[2]))
            before == SubSeq(markdown, 1, b[1] - 1)
            after == SubSeq(markdown, b[2] + 1, Len(markdown))
        IN \E k \in 0..Len(processed) :
              /\ k + Len(block) <= Len(processed)
              /\ trimAll(SubSeq(processed, k + 1, k + Len(block))) = block
              /\ TocItemsOf(trimAll(processed)) = block
              /\ BodyOf(SubSeq(processed, 1, k)) = BodyOf(before)
              /\ BodyOf(SubSeq(processed, k + Len(block) + 1, Len(processed)))
                    = BodyOf(after)

\* a maximal run of TOC-item lines whose item count is 2 or less, or 30 or
\* more
IsUnsizedTocBlock(lines, s, e) ==
    /\ IsTocBlock(lines, s, e)
    /\ ~(e - s + 1 > 2 /\ e - s + 1 < 30)

\* C11: a block of TOC-item lines with 2 or fewer, or 30 or more, items is
\* never the block that survives the TOC-deduplication pass, and it does not
\* use up the single-TOC allowance: when a block with more than 2 and fewer
\* than 30 items follows it, the first such block is the one that survives.
C11_UnsizedBlockNotCounted ==
    step >= 2 =>
        LET in == passes[2][2]
            out == passes[2][3]
        IN \A s \in 1..Len(in), e \in 1..Len(in) :
              IsUnsizedTocBlock(in, s, e) =>
                 /\ ~HasSizedTocBlock(in) => TocItemsOf(out) = <<>>
                 /\ (/\ HasSizedTocBlock(in)
                     /\ e < FirstSizedTocBlock(in)[1]) =>
                        LET b == FirstSizedTocBlock(in)
                        IN TocItemsOf(out) = SubSeq(in, b[1], b[2])

\* `block` stands in `lines` as a run of consecutive lines
occursIn(block, lines) ==
    \E k \in 1..Len(lines) :
        /\ k + Len(block) - 1 <= Len(lines)
        /\ SubSeq(lines, k, k + Len(block) - 1) = block

\* C36: a block of TOC-item lines with 2 or fewer, or 30 or more, items that
\* comes before any block with more than 2 and fewer than 30 items is left
\* in the output of the TOC-deduplication pass as it stands.
C36_UnsizedBlockKept ==
    step >= 2 =>
        LET in == passes[2][2]
            out == passes[2][3]
        IN \A s \in 1..Len(in), e \in 1..Len(in) :
              (/\ IsUnsizedTocBlock(in, s, e)
               /\ \/ ~HasSizedTocBlock(in)
                  \/ e < FirstSizedTocBlock(in)[1]) =>
                    occursIn(SubSeq(in, s, e), out)

\* text made of body lines and blank lines only: no drop rule of any pass
\* matches a line or a run of lines of it
ChromeFree(lines) ==
    \A i \in 1..Len(lines) :
        lines[i] \in {"Intro text", "Closing text  ", "", WsLine}

\* C12: for a text free of chrome, whitespace-only lines and runs of blank
\* lines included, running postProcessMarkdown on its own output changes
\* nothing.
C12_Idempotent ==
    (step = 6 /\ ChromeFree(markdown)) =>
        postProcessMarkdown(processed, convertHtmlTags) = processed

\* the positions of the lines of `lines` that are not blank
nonBlankAt(lines) ==
    SelectSeq([i \in 1..Len(lines) |-> i],
              LAMBDA i : ~isWhitespace(lines[i]))

\* lines s..e of `lines` are a maximal run of blank lines (empty or
\* whitespace-only) between two lines that are not blank
IsBlankRun(lines, s, e) ==
    /\ 1 < s /\ s <= e /\ e < Len(lines)
    /\ \A k \in s..e : isWhitespace(lines[k])
    /\ ~isWhitespace(lines[s - 1])
    /\ ~isWhitespace(lines[e + 1])

\* C13: in the output of postProcessMarkdown every run of 3 or more blank
\* lines (empty or whitespace-only) of the text handed to the whitespace
\* pass has become exactly one blank line, and no output line ends with
\* white space.
C13_BlankRunsCollapsed ==
    step = 6 =>
        LET in == passes[Len(passes)][2]
        IN /\ \A i \in 1..Len(processed) : trimEnd(processed[i]) = processed[i]
           /\ \A s \in 1..Len(in), e \in 1..Len(in) :
                 (IsBlankRun(in, s, e) /\ e - s + 1 >= 3) =>
                    LET n == Len(nonBlankAt(SubSeq(in, 1, s - 1)))
                        at == nonBlankAt(processed)
                    IN /\ Len(at) > n
                       /\ at[n + 1] - at[n] = 2

\* the passes of one call, in the order of the claim
PassOrder(convertTags) ==
    <<"removeHeaderNav", "removeDuplicateTOC", "convertDefinitionLists">>
    \o (IF convertTags THEN <<"stripRemainingHtml">> ELSE <<>>)
    \o <<"removeNavigationMenus", "cleanWhitespace">>

\* C17: every call applies the passes in the order header strip, TOC
\* deduplication, definition lists, markup stripping, chrome removal,
\* whitespace; each pass receives the output of the pass before it (the
\* first one the input text), markup stripping, when it runs, comes before
\* chrome removal, and the whitespace pass is the last one and gives the
\* result.
C17_PassOrder ==
    LET order == PassOrder(convertHtmlTags)
    IN /\ Len(passes) <= Len(order)
       /\ \A k \in 1..Len(passes) :
             /\ passes[k][1] = order[k]
             /\ passes[k][2] = IF k = 1 THEN markdown ELSE passes[k - 1][3]
       /\ processed = IF passes = <<>> THEN markdown
                      ELSE passes[Len(passes)][3]
       /\ step = 6 =>
             /\ Len(passes) = Len(order)
             /\ passes[Len(passes)][1] = "cleanWhitespace"

\* a call in which the markup, chrome and whitespace passes each change
\* the text
C17_Witness ==
    /\ step = 6
    /\ convertHtmlTags
    /\ Len(passes) = 6
    /\ \A k \in 4..6 : passes[k][2] # passes[k][3]

\* C18: with convertHtmlTags = false neither the definition-list pass nor
\* the markup-stripping pass has any effect, so the chrome pass receives the
\* output of the TOC pass unchanged, term/description fragments included;
\* with convertHtmlTags = true both passes run.
C18_MarkupPassesGated ==
    step >= 5 =>
        LET names == [k \in 1..Len(passes) |-> passes[k][1]]
            ran(name) == \E k \in 1..Len(passes) : names[k] = name
            nav == CHOOSE k \in 1..Len(passes) :
                       names[k] = "removeNavigationMenus"
        IN IF convertHtmlTags
           THEN ran("convertDefinitionLists") /\ ran("stripRemainingHtml")
           ELSE /\ ~ran("stripRemainingHtml")
                /\ passes[nav][2] = passes[2][3]

\* C24: each of the header strip, the TOC deduplication, the chrome
\* removal and the whitespace pass gives, applied to its own output, that
\* output again, for every text.
C24_EachPassIdempotent ==
    step = 0 =>
        /\ removeHeaderNav(removeHeaderNav(markdown))
              = removeHeaderNav(markdown)
        /\ removeDuplicateTOC(removeDuplicateTOC(markdown))
              = removeDuplicateTOC(markdown)
        /\ removeNavigationMenus(removeNavigationMenus(markdown))
              = removeNavigationMenus(markdown)
        /\ cleanWhitespace(cleanWhitespace(markdown))
              = cleanWhitespace(markdown)

\* the line holds a tag whose name is not one of code, pre, kbd, samp,
\* strong, em, a, p, h1-h6, ul, ol, li, blockquote, div, span
hasDisallowedTag(line) == line \in {DefListLine, ScriptLine, CustomTagLine}

\* C26: whatever the input and the options, no line of the output of
\* postProcessMarkdown holds a tag other than the allow-listed ones.
C26_NoResidualMarkup ==
    step = 6 =>
        \A i \in 1..Len(processed) : ~hasDisallowedTag(processed[i])

(***************************************************************************)
(* SpecNav: removeNavigationMenus(markdown), one action per branch of the  *)
(* loop body, and one for the statements after the loop.                   *)
(***************************************************************************)
MaxNavLines == 4

NavAlphabet ==
    {"", "Intro text", DashLine, LogoItem, NavigateItem, "Learn more",
     "apps", "menu", NumberedNavLine, "Closing text  ", TocB}

NavTexts == UNION {[1..n -> NavAlphabet] : n \in 1..MaxNavLines}

InitNav ==
    /\ navLines \in NavTexts
    /\ navI = 1
    /\ skipMode = 0
    /\ cleaned = <<>>
    /\ navTrace = <<>>
    /\ navResult = <<>>
    /\ ClassifyIdle
    /\ RetryIdle
    /\ NormalizeIdle
    /\ PipeIdle
    /\ ExitIdle
    /\ PolicyIdle
    /\ CliIdle
    /\ WriterIdle
    /\ ConvertIdle
    /\ BrowserIdle

\* one iteration of the loop that takes the branch `rule`
NavIteration(rule) ==
    /\ navI \in 1..Len(navLines)
    /\ LET r == navStep(navLines, navI, skipMode)
       IN /\ r.rule = rule
          /\ skipMode' = r.mode
          /\ cleaned' = IF r.keep THEN Append(cleaned, navLines[navI])
                        ELSE cleaned
          /\ navTrace' = Append(navTrace, [before |-> skipMode,
                                           rule |-> r.rule,
                                           keep |-> r.keep,
                                           after |-> r.mode])
    /\ navI' = navI + 1
    /\ UNCHANGED <<navLines, navResult, classifyVars, retryVars, normVars,
                   pipeVars,
                   exitVars,
                   polVars,
                   cliVars,
                   writerVars,
                   convVars,
                   browserVars>>

SkipKeywordLine == NavIteration("keyword")

EnterMenuSection == NavIteration("sectionHeader")

EnterMenuList == NavIteration("menuList")

SkipMenuListLine == NavIteration("inMenuList")

SkipMenuSectionLine == NavIteration("inMenuSection")

SkipDroppedLink == NavIteration("droppedLink")

PushLine == NavIteration("retain")

NavReturn ==
    /\ navI = Len(navLines) + 1
    /\ navResult' = navFinish(cleaned)
    /\ navI' = navI + 1
    /\ UNCHANGED <<navLines, skipMode, cleaned, navTrace, classifyVars,
                   retryVars, normVars, pipeVars,
                   exitVars,
                   polVars,
                   cliVars,
                   writerVars,
                   convVars,
                   browserVars>>

NextNav ==
    \/ SkipKeywordLine
    \/ EnterMenuSection
    \/ EnterMenuList
    \/ SkipMenuListLine
    \/ SkipMenuSectionLine
    \/ SkipDroppedLink
    \/ PushLine
    \/ NavReturn

SpecNav == InitNav /\ [][NextNav]_vars

(***************************************************************************)
(* SpecPipeline: one call of processAllUrls(urls, config), or one call of  *)
(* scrapeUrls(urls, options).  A document is named by its index in urls.   *)
(* docStage[d] is "pending" before the document is started, "scrape",      *)
(* "convert" or "write" while that stage runs, and "done" or "failed" once *)
(* its promise has settled.                                                *)
(***************************************************************************)
MaxUrls == 4

\* maxAttempts of the executeWithRetry call of scrapeUrl
ScrapeMaxAttempts == 3

\* default of options.concurrency of scrapeUrls
ScrapeConcurrency == 3

InProgress == {"scrape", "convert", "write"}

Settled == {"done", "failed"}

InitPipeline ==
    /\ pipeOp \in {"processAllUrls", "scrapeUrls"}
    /\ urls \in 1..MaxUrls
    /\ pipeI = 1
    /\ docStage = [d \in 1..urls |-> "pending"]
    /\ docTries = [d \in 1..urls |-> 0]
    /\ results = <<>>
    /\ pipeLog = <<>>
    /\ pipePc = "loop"
    /\ ClassifyIdle
    /\ RetryIdle
    /\ NormalizeIdle
    /\ NavIdle
    /\ ExitIdle
    /\ PolicyIdle
    /\ CliIdle
    /\ WriterIdle
    /\ ConvertIdle
    /\ BrowserIdle

\* processUrl returns `result` for document pipeI and the loop of
\* processAllUrls pushes it
PushResult(stage, result) ==
    /\ docStage' = [docStage EXCEPT ![pipeI] = stage]
    /\ results' = Append(results, result)
    /\ pipeLog' = Append(pipeLog, <<"finish", pipeI>>)
    /\ pipeI' = pipeI + 1
    /\ pipePc' = "loop"

FailedResult(stage) == [url |-> pipeI, success |-> FALSE, error |-> stage]

\* processAllUrls starts document pipeI without waiting for processUrl
StartDocumentNoAwait ==
    /\ pipeOp = "processAllUrls"
    /\ pipePc = "loop"
    /\ pipeI <= urls
    /\ docStage' = [docStage EXCEPT ![pipeI] = "scrape"]
    /\ docTries' = [docTries EXCEPT ![pipeI] = 1]
    /\ pipeLog' = Append(pipeLog, <<"start", pipeI>>)
    /\ pipeI' = pipeI + 1
    /\ UNCHANGED <<pipeOp, urls, results, pipePc, classifyVars, retryVars,
                   normVars, navVars,
                   exitVars,
                   polVars,
                   cliVars,
                   writerVars,
                   convVars,
                   browserVars>>

\* processAllUrls calls processUrl(urls[i], ...) and awaits it; processUrl
\* calls scrapeUrl, which starts the first attempt
StartDocument ==
    /\ pipeOp = "processAllUrls"
    /\ pipePc = "loop"
    /\ pipeI <= urls
    /\ docStage' = [docStage EXCEPT ![pipeI] = "scrape"]
    /\ docTries' = [docTries EXCEPT ![pipeI] = 1]
    /\ pipeLog' = Append(pipeLog, <<"start", pipeI>>)
    /\ pipePc' = "awaitUrl"
    /\ UNCHANGED <<pipeOp, urls, pipeI, results, classifyVars, retryVars,
                   normVars, navVars,
                   exitVars,
                   polVars,
                   cliVars,
                   writerVars,
                   convVars,
                   browserVars>>

\* an attempt of scrapeUrl fails with a retryable error before the last
\* attempt: executeWithRetry sleeps and starts the next attempt
ScrapeRetry(d) ==
    /\ docStage[d] = "scrape"
    /\ docTries[d] < ScrapeMaxAttempts
    /\ docTries' = [docTries EXCEPT ![d] = docTries[d] + 1]
    /\ UNCHANGED <<pipeOp, urls, pipeI, docStage, results, pipeLog, pipePc,
                   classifyVars, retryVars, normVars, navVars,
                   exitVars,
                   polVars,
                   cliVars,
                   writerVars,
                   convVars,
                   browserVars>>

\* scrapeUrl resolves inside processUrl
ScrapeSucceeds ==
    /\ pipePc = "awaitUrl"
    /\ docStage[pipeI] = "scrape"
    /\ docStage' = [docStage EXCEPT ![pipeI] = "convert"]
    /\ UNCHANGED <<pipeOp, urls, pipeI, docTries, results, pipeLog, pipePc,
                   classifyVars, retryVars, normVars, navVars,
                   exitVars,
                   polVars,
                   cliVars,
                   writerVars,
                   convVars,
                   browserVars>>

\* scrapeUrl rejects and the rejection leaves processAllUrls
ScrapeFailsAborts ==
    /\ pipePc = "awaitUrl"
    /\ docStage[pipeI] = "scrape"
    /\ docStage' = [docStage EXCEPT ![pipeI] = "failed"]
    /\ pipeLog' = Append(pipeLog, <<"finish", pipeI>>)
    /\ pipePc' = "returned"
    /\ UNCHANGED <<pipeOp, urls, pipeI, docTries, results, classifyVars,
                   retryVars, normVars, navVars,
                   exitVars,
                   polVars,
                   cliVars,
                   writerVars,
                   convVars,
                   browserVars>>

\* scrapeUrl rejects inside processUrl (a non-retryable error, or any error
\* of the last attempt): the catch block returns a failed result
ScrapeFails ==
    /\ pipePc = "awaitUrl"
    /\ docStage[pipeI] = "scrape"
    /\ PushResult("failed", FailedResult("scrape"))
    /\ UNCHANGED <<pipeOp, urls, docTries, classifyVars, retryVars,
                   normVars, navVars,
                   exitVars,
                   polVars,
                   cliVars,
                   writerVars,
                   convVars,
                   browserVars>>

ConvertSucceeds ==
    /\ pipePc = "awaitUrl"
    /\ docStage[pipeI] = "convert"
    /\ docStage' = [docStage EXCEPT ![pipeI] = "write"]
    /\ UNCHANGED <<pipeOp, urls, pipeI, docTries, results, pipeLog, pipePc,
                   classifyVars, retryVars, normVars, navVars,
                   exitVars,
                   polVars,
                   cliVars,
                   writerVars,
                   convVars,
                   browserVars>>

ConvertFails ==
    /\ pipePc = "awaitUrl"
    /\ docStage[pipeI] = "convert"
    /\ PushResult("failed", FailedResult("convert"))
    /\ UNCHANGED <<pipeOp, urls, docTries, classifyVars, retryVars,
                   normVars, navVars,
                   exitVars,
                   polVars,
                   cliVars,
                   writerVars,
                   convVars,
                   browserVars>>

\* writeMarkdown resolves, with a written file or with a skipped one
WriteSucceeds(skipped) ==
    /\ pipePc = "awaitUrl"
    /\ docStage[pipeI] = "write"
    /\ PushResult("done", [url |-> pipeI, success |-> TRUE,
                           error |-> IF skipped THEN "skipped" ELSE "none"])
    /\ UNCHANGED <<pipeOp, urls, docTries, classifyVars, retryVars,
                   normVars, navVars,
                   exitVars,
                   polVars,
                   cliVars,
                   writerVars,
                   convVars,
                   browserVars>>

WriteFails ==
    /\ pipePc = "awaitUrl"
    /\ docStage[pipeI] = "write"
    /\ PushResult("failed", FailedResult("write"))
    /\ UNCHANGED <<pipeOp, urls, docTries, classifyVars, retryVars,
                   normVars, navVars,
                   exitVars,
                   polVars,
                   cliVars,
                   writerVars,
                   convVars,
                   browserVars>>

\* the documents of the batch that starts at document i
Batch(i) == {d \in 1..urls : i <= d /\ d < i + ScrapeConcurrency}

RECURSIVE startEvents(_, _)
startEvents(d, last) ==
    IF d > last THEN <<>> ELSE <<<<"start", d>>>> \o startEvents(d + 1, last)

\* scrapeUrls maps scrapeUrl over the batch: every document of the batch is
\* started before the await of Promise.all
StartBatch ==
    /\ pipeOp = "scrapeUrls"
    /\ pipePc = "loop"
    /\ pipeI <= urls
    /\ docStage' = [d \in 1..urls |->
                       IF d \in Batch(pipeI) THEN "scrape" ELSE docStage[d]]
    /\ docTries' = [d \in 1..urls |->
                       IF d \in Batch(pipeI) THEN 1 ELSE docTries[d]]
    /\ pipeLog' = pipeLog
                     \o startEvents(pipeI,
                                    Min(pipeI + ScrapeConcurrency - 1, urls))
    /\ pipePc' = "awaitBatch"
    /\ UNCHANGED <<pipeOp, urls, pipeI, results, classifyVars, retryVars,
                   normVars, navVars,
                   exitVars,
                   polVars,
                   cliVars,
                   writerVars,
                   convVars,
                   browserVars>>

\* the promise of one document of the batch settles
BatchScrapeSettles(d, stage) ==
    /\ pipePc = "awaitBatch"
    /\ docStage[d] = "scrape"
    /\ docStage' = [docStage EXCEPT ![d] = stage]
    /\ pipeLog' = Append(pipeLog, <<"finish", d>>)
    /\ UNCHANGED <<pipeOp, urls, pipeI, docTries, results, pipePc,
                   classifyVars, retryVars, normVars, navVars,
                   exitVars,
                   polVars,
                   cliVars,
                   writerVars,
                   convVars,
                   browserVars>>

RECURSIVE batchResults(_, _, _)
batchResults(stages, d, last) ==
    IF d > last THEN <<>>
    ELSE (IF stages[d] = "done"
          THEN <<[url |-> d, success |-> TRUE, error |-> "none"]>>
          ELSE <<>>)
         \o batchResults(stages, d + 1, last)

\* Promise.all resolves: the results of the batch are pushed in batch order,
\* the errors are set aside, and the loop goes on to the next batch
CollectBatch ==
    /\ pipePc = "awaitBatch"
    /\ \A d \in Batch(pipeI) : docStage[d] \in Settled
    /\ results' = results
                     \o batchResults(docStage, pipeI,
                                     Min(pipeI + ScrapeConcurrency - 1, urls))
    /\ pipeI' = pipeI + ScrapeConcurrency
    /\ pipePc' = "loop"
    /\ UNCHANGED <<pipeOp, urls, docStage, docTries, pipeLog, classifyVars,
                   retryVars, normVars, navVars,
                   exitVars,
                   polVars,
                   cliVars,
                   writerVars,
                   convVars,
                   browserVars>>

ReturnResults ==
    /\ pipePc = "loop"
    /\ pipeI > urls
    /\ pipePc' = "returned"
    /\ UNCHANGED <<pipeOp, urls, pipeI, docStage, docTries, results, pipeLog,
                   classifyVars, retryVars, normVars, navVars,
                   exitVars,
                   polVars,
                   cliVars,
                   writerVars,
                   convVars,
                   browserVars>>

\* generateStats(results): the counters the exit status depends on
RECURSIVE generateStatsFrom(_, _, _)
generateStatsFrom(rs, k, acc) ==
    IF k > Len(rs) THEN acc
    ELSE generateStatsFrom(rs, k + 1,
            IF rs[k].success
            THEN [acc EXCEPT !.successful = @ + 1,
                             !.skipped = IF rs[k].error = "skipped"
                                         THEN @ + 1 ELSE @]
            ELSE [acc EXCEPT !.failed = @ + 1,
                             !.errors = Append(@, rs[k].error)])

\* the counters without `total: results.length`
generateStatsNoTotal(rs) ==
    generateStatsFrom(rs, 1, NoStats)

generateStats(rs) ==
    generateStatsFrom(rs, 1, [NoStats EXCEPT !.total = Len(rs)])

\* an exit status that is non-zero only when no document succeeded
exitStatusAllFailed(st) == IF st.successful = 0 THEN 1 ELSE 0

\* handleResults: process.exit(1) when stats.errors is not empty, otherwise
\* the function returns and the process ends with status 0
exitStatus(st) == IF Len(st.errors) > 0 THEN 1 ELSE 0

\* main calls handleResults(results) on the value of processAllUrls
HandleResults ==
    /\ pipeOp = "processAllUrls"
    /\ pipePc = "returned"
    /\ stats' = generateStats(results)
    /\ exitCode' = exitStatus(generateStats(results))
    /\ pipePc' = "exited"
    /\ UNCHANGED <<pipeOp, urls, pipeI, docStage, docTries, results, pipeLog,
                   classifyVars, retryVars, normVars, navVars,
                   polVars,
                   cliVars,
                   writerVars,
                   convVars,
                   browserVars>>

NextPipeline ==
    \/ StartDocument
    \/ \E d \in 1..urls : ScrapeRetry(d)
    \/ ScrapeSucceeds
    \/ ScrapeFails
    \/ ConvertSucceeds
    \/ ConvertFails
    \/ \E skipped \in BOOLEAN : WriteSucceeds(skipped)
    \/ WriteFails
    \/ StartBatch
    \/ \E d \in 1..urls, stage \in Settled : BatchScrapeSettles(d, stage)
    \/ CollectBatch
    \/ ReturnResults
    \/ HandleResults

SpecPipeline == InitPipeline /\ [][NextPipeline]_vars

(***************************************************************************)
(* Retry policies: where they come from and what is done with them.        *)
(***************************************************************************)

Pol(a, b, m) == [maxAttempts |-> a, baseDelay |-> b, maxDelay |-> m]

\* RetryPresets
RetryPresets == {Pol(2, 500, 2000), Pol(3, 1000, 10000),
                 Pol(5, 1000, 30000), Pol(3, 2000, 30000)}

\* the options scrapeUrl passes to executeWithRetry
ScrapePolicy == Pol(3, 1000, 10000)

\* the options convertToMarkdown passes to executeWithRetry
ConvertPolicy == Pol(2, 100, 500)

\* the retry fields of DEFAULT_CONFIG (maxRetries, baseDelay, maxDelay)
DefaultConfigRetry == Pol(3, 1000, 30000)

\* the defaults of executeWithRetry's options
DefaultOptions == Pol(3, 1000, 30000)

\* retry fields a caller of createConfig may give; maxAttempts holds the
\* field the configuration calls maxRetries
UserConfigs ==
    [maxAttempts : {Undefined, -1, 0, 1, 10, 11},
     baseDelay   : {Undefined, 0, 99, 100, 60000, 60001},
     maxDelay    : {Undefined, 999, 1000, 300000, 300001}]

\* options a caller of executeWithRetry may give
UserOptions ==
    [maxAttempts : {Undefined, -1, 0, 1},
     baseDelay   : {Undefined, 0, 100, 5000},
     maxDelay    : {Undefined, 0, 100, 1000}]

\* { ...defaults, ...given } and destructuring with defaults: a property
\* that is undefined takes the default
merge(defaults, given) ==
    [f \in {"maxAttempts", "baseDelay", "maxDelay"} |->
        IF given[f] = Undefined THEN defaults[f] ELSE given[f]]

\* validateRange does not throw
inRange(value, min, max) == ~(value < min \/ value > max)

\* createConfig's three validateRange calls on the retry fields pass
configRetryValid(c) ==
    /\ inRange(c.maxAttempts, 0, 10)
    /\ inRange(c.baseDelay, 100, 60000)
    /\ inRange(c.maxDelay, 1000, 300000)

InitPolicy ==
    /\ \/ /\ polSource = "preset"
          /\ polInput \in RetryPresets
       \/ /\ polSource = "scrapeUrl"
          /\ polInput = ScrapePolicy
       \/ /\ polSource = "convertToMarkdown"
          /\ polInput = ConvertPolicy
       \/ /\ polSource = "createConfig"
          /\ polInput \in UserConfigs
       \/ /\ polSource = "executeWithRetry"
          /\ polInput \in UserOptions
    /\ polResult = NoPolicy
    /\ polPc = "input"
    /\ polInvoked = 0
    /\ ClassifyIdle
    /\ RetryIdle
    /\ NormalizeIdle
    /\ NavIdle
    /\ PipeIdle
    /\ ExitIdle
    /\ CliIdle
    /\ WriterIdle
    /\ ConvertIdle
    /\ BrowserIdle

\* createConfig returns the frozen configuration
CreateConfigReturns ==
    /\ polPc = "input"
    /\ polSource = "createConfig"
    /\ configRetryValid(merge(DefaultConfigRetry, polInput))
    /\ polResult' = merge(DefaultConfigRetry, polInput)
    /\ polPc' = "accepted"
    /\ UNCHANGED <<polSource, polInput, polInvoked,
                   classifyVars, retryVars, normVars, navVars, pipeVars,
                   exitVars,
                   cliVars,
                   writerVars,
                   convVars,
                   browserVars>>

\* createConfig throws
CreateConfigThrows ==
    /\ polPc = "input"
    /\ polSource = "createConfig"
    /\ ~configRetryValid(merge(DefaultConfigRetry, polInput))
    /\ polPc' = "rejected"
    /\ UNCHANGED <<polSource, polInput, polResult, polInvoked,
                   classifyVars, retryVars, normVars, navVars, pipeVars,
                   exitVars,
                   cliVars,
                   writerVars,
                   convVars,
                   browserVars>>

\* executeWithRetry destructures its options
TakeOptions ==
    /\ polPc = "input"
    /\ polSource # "createConfig"
    /\ polResult' = merge(DefaultOptions, polInput)
    /\ polPc' = "accepted"
    /\ UNCHANGED <<polSource, polInput, polInvoked,
                   classifyVars, retryVars, normVars, navVars, pipeVars,
                   exitVars,
                   cliVars,
                   writerVars,
                   convVars,
                   browserVars>>

\* the first test of executeWithRetry's loop, attempt = 1
FirstLoopTest ==
    /\ polPc = "accepted"
    /\ polSource # "createConfig"
    /\ polInvoked' = IF 1 <= polResult.maxAttempts THEN 1 ELSE 0
    /\ polPc' = "ran"
    /\ UNCHANGED <<polSource, polInput, polResult,
                   classifyVars, retryVars, normVars, navVars, pipeVars,
                   exitVars,
                   cliVars,
                   writerVars,
                   convVars,
                   browserVars>>

NextPolicy ==
    \/ CreateConfigReturns
    \/ CreateConfigThrows
    \/ TakeOptions
    \/ FirstLoopTest

SpecPolicy == InitPolicy /\ [][NextPolicy]_vars

(***************************************************************************)
(* SpecCli: main() from parseArgs to the write of one document.            *)
(***************************************************************************)
MaxArgs == 3

\* what may stand on the command line
ArgWords == {"--overwrite", "-o", "--continue", "-c", "--help", "--name",
             "docs"}

RECURSIVE SeqsUpTo(_, _)
\* the sequences over S of length at most n
SeqsUpTo(S, n) ==
    IF n = 0 THEN {<<>>}
    ELSE SeqsUpTo(S, n - 1) \cup
         {Append(q, x) : q \in {r \in SeqsUpTo(S, n - 1) : Len(r) = n - 1},
                         x \in S}

parseArgOverwriteOnly(a, av, i) ==
    LET arg == av[i]
    IN CASE arg \in {"--help", "-h"} ->
              [args |-> [a EXCEPT !.showHelp = TRUE], next |-> i + 1]
         [] arg \in {"--overwrite", "-o"} ->
              [args |-> [a EXCEPT !.overwrite = TRUE],
               next |-> i + 1]
         [] arg \in {"--continue", "-c"} ->
              [args |-> [a EXCEPT !.continue = TRUE, !.overwrite = FALSE],
               next |-> i + 1]
         [] arg \in {"--name", "-n"} ->
              IF i + 1 <= Len(av)
              THEN [args |-> [a EXCEPT !.runName = av[i + 1]], next |-> i + 2]
              ELSE [args |-> a, next |-> i + 1]
         [] arg \in {"--output-dir", "-d"} ->
              IF i + 1 <= Len(av)
              THEN [args |-> [a EXCEPT !.outputDir = av[i + 1]],
                    next |-> i + 2]
              ELSE [args |-> a, next |-> i + 1]
         [] OTHER -> [args |-> a, next |-> i + 1]

\* one iteration of parseArgs' loop on argv[i]: the new args and the index
\* the loop continues with
parseArg(a, av, i) ==
    LET arg == av[i]
    IN CASE arg \in {"--help", "-h"} ->
              [args |-> [a EXCEPT !.showHelp = TRUE], next |-> i + 1]
         [] arg \in {"--overwrite", "-o"} ->
              [args |-> [a EXCEPT !.overwrite = TRUE, !.continue = FALSE],
               next |-> i + 1]
         [] arg \in {"--continue", "-c"} ->
              [args |-> [a EXCEPT !.continue = TRUE, !.overwrite = FALSE],
               next |-> i + 1]
         [] arg \in {"--name", "-n"} ->
              IF i + 1 <= Len(av)
              THEN [args |-> [a EXCEPT !.runName = av[i + 1]], next |-> i + 2]
              ELSE [args |-> a, next |-> i + 1]
         [] arg \in {"--output-dir", "-d"} ->
              IF i + 1 <= Len(av)
              THEN [args |-> [a EXCEPT !.outputDir = av[i + 1]],
                    next |-> i + 2]
              ELSE [args |-> a, next |-> i + 1]
         [] OTHER -> [args |-> a, next |-> i + 1]

\* writeMarkdown's `skipExisting = true`: the default, which is what it
\* works with since processUrl calls it without options
SkipExistingDefault == TRUE

InitCli ==
    /\ argv \in SeqsUpTo(ArgWords, MaxArgs)
    /\ argI = 1
    /\ args = InitialArgs
    /\ cliPc = "parse"
    /\ targetExists \in BOOLEAN
    /\ writeResult = "none"
    /\ isTTY \in BOOLEAN
    /\ nameFileExists \in BOOLEAN
    /\ nameSource = "none"
    /\ ClassifyIdle
    /\ RetryIdle
    /\ NormalizeIdle
    /\ NavIdle
    /\ PipeIdle
    /\ ExitIdle
    /\ PolicyIdle
    /\ WriterIdle
    /\ ConvertIdle
    /\ BrowserIdle

\* one iteration of the loop of parseArgs
\* the source determineRunName returns the name from
determineRunName(a, tty, fileExists) ==
    IF a.runName # "" THEN "flag"
    ELSE IF tty THEN "menu"
    ELSE IF fileExists THEN "file"
    ELSE "timestamp"

ParseArg ==
    /\ cliPc = "parse"
    /\ argI <= Len(argv)
    /\ args' = parseArg(args, argv, argI).args
    /\ argI' = parseArg(args, argv, argI).next
    /\ UNCHANGED <<argv, cliPc, targetExists, writeResult,
                   isTTY, nameFileExists, nameSource,
                   classifyVars, retryVars, normVars, navVars, pipeVars,
                   exitVars, polVars,
                   writerVars,
                   convVars,
                   browserVars>>

\* parseArgs returns
ParseReturns ==
    /\ cliPc = "parse"
    /\ argI > Len(argv)
    /\ cliPc' = "parsed"
    /\ UNCHANGED <<argv, argI, args, targetExists, writeResult,
                   isTTY, nameFileExists, nameSource,
                   classifyVars, retryVars, normVars, navVars, pipeVars,
                   exitVars, polVars,
                   writerVars,
                   convVars,
                   browserVars>>

\* main: showHelp() and process.exit(0)
ShowHelp ==
    /\ cliPc = "parsed"
    /\ args.showHelp
    /\ cliPc' = "help"
    /\ UNCHANGED <<argv, argI, args, targetExists, writeResult,
                   isTTY, nameFileExists, nameSource,
                   classifyVars, retryVars, normVars, navVars, pipeVars,
                   exitVars, polVars,
                   writerVars,
                   convVars,
                   browserVars>>

\* main: `await determineRunName(args)`
DetermineRunName ==
    /\ cliPc = "parsed"
    /\ ~args.showHelp
    /\ nameSource' = determineRunName(args, isTTY, nameFileExists)
    /\ cliPc' = "named"
    /\ UNCHANGED <<argv, argI, args, targetExists, writeResult,
                   isTTY, nameFileExists,
                   classifyVars, retryVars, normVars, navVars, pipeVars,
                   exitVars, polVars,
                   writerVars,
                   convVars,
                   browserVars>>

\* main: the configuration is built from args.outputDir alone and
\* processAllUrls is called
StartPipeline ==
    /\ cliPc = "named"
    /\ cliPc' = "pipeline"
    /\ UNCHANGED <<argv, argI, args, targetExists, writeResult,
                   isTTY, nameFileExists, nameSource,
                   classifyVars, retryVars, normVars, navVars, pipeVars,
                   exitVars, polVars,
                   writerVars,
                   convVars,
                   browserVars>>

\* writeMarkdown returns { success: false, skipped: true }
WriteSkipsExisting ==
    /\ cliPc = "pipeline"
    /\ SkipExistingDefault /\ targetExists
    /\ writeResult' = "skipped"
    /\ cliPc' = "done"
    /\ UNCHANGED <<argv, argI, args, targetExists,
                   isTTY, nameFileExists, nameSource,
                   classifyVars, retryVars, normVars, navVars, pipeVars,
                   exitVars, polVars,
                   writerVars,
                   convVars,
                   browserVars>>

\* writeMarkdown writes the file
WriteFile ==
    /\ cliPc = "pipeline"
    /\ ~(SkipExistingDefault /\ targetExists)
    /\ writeResult' = "written"
    /\ cliPc' = "done"
    /\ UNCHANGED <<argv, argI, args, targetExists,
                   isTTY, nameFileExists, nameSource,
                   classifyVars, retryVars, normVars, navVars, pipeVars,
                   exitVars, polVars,
                   writerVars,
                   convVars,
                   browserVars>>

NextCli ==
    \/ ParseArg
    \/ ParseReturns
    \/ ShowHelp
    \/ DetermineRunName
    \/ StartPipeline
    \/ WriteSkipsExisting
    \/ WriteFile

SpecCli == InitCli /\ [][NextCli]_vars

(***************************************************************************)
(* SpecWriter: the writeMarkdown calls of one run, one document after the  *)
(* other, into one output folder.                                          *)
(***************************************************************************)
MaxRunUrls == 2

\* a path segment: its words (the parts between hyphens) and its extension
Seg(words, ext) == [words |-> words, ext |-> ext]

\* new URL(href): the parts sanitizeFilename reads, and the query string,
\* which it does not read
Url(href, host, path, search, hash) ==
    [href |-> href, host |-> host, path |-> path, search |-> search,
     hash |-> hash]

\* the URLs a run may hold; every file name they yield is shorter than the
\* 80 characters substring(0, 80) keeps
UrlList ==
    <<Url("https://docs.example.com/guide/intro",
          <<"docs", "example", "com">>,
          <<Seg(<<"guide">>, ""), Seg(<<"intro">>, "")>>, "", <<>>),
      Url("https://docs.example.com/guide/intro?page=2",
          <<"docs", "example", "com">>,
          <<Seg(<<"guide">>, ""), Seg(<<"intro">>, "")>>, "?page=2", <<>>),
      Url("https://api.example.com/guide/intro",
          <<"api", "example", "com">>,
          <<Seg(<<"guide">>, ""), Seg(<<"intro">>, "")>>, "", <<>>),
      Url("https://docs.example.com/guide/intro.html",
          <<"docs", "example", "com">>,
          <<Seg(<<"guide">>, ""), Seg(<<"intro">>, "html")>>, "", <<>>),
      Url("https://docs.example.com/guide/setup",
          <<"docs", "example", "com">>,
          <<Seg(<<"guide">>, ""), Seg(<<"setup">>, "")>>, "", <<>>),
      Url("https://docs.example.com/guide/intro#top",
          <<"docs", "example", "com">>,
          <<Seg(<<"guide">>, ""), Seg(<<"intro">>, "")>>, "", <<"top">>),
      Url("https://docs.example.com/v2/api/guide/intro",
          <<"docs", "example", "com">>,
          <<Seg(<<"v2">>, ""), Seg(<<"api">>, ""), Seg(<<"guide">>, ""),
            Seg(<<"intro">>, "")>>, "", <<>>),
      Url("https://localhost/setup.php",
          <<"localhost">>, <<Seg(<<"setup">>, "php")>>, "", <<>>)>>

\* part.replace(/\.html?$/i, ""), then the dot of any other extension
\* becomes a hyphen
cleanPart(seg) ==
    IF seg.ext \in {"", "html", "htm"} THEN seg.words
    ELSE Append(seg.words, seg.ext)

\* pathParts.slice(-3)
lastThree(parts) ==
    IF Len(parts) <= 3 THEN parts
    ELSE SubSeq(parts, Len(parts) - 2, Len(parts))

\* the name as the sequence of its words, which the result joins by hyphens
sanitizeFilename(u) ==
    LET domain == IF Len(u.host) >= 2
                  THEN <<u.host[Len(u.host) - 1], u.host[Len(u.host)]>>
                  ELSE u.host
        meaningfulParts == lastThree(u.path)
    IN domain
       \o flatten([k \in 1..Len(meaningfulParts) |->
                       cleanPart(meaningfulParts[k])])
       \o u.hash

\* the file name of URL k
generateFilename(k) ==
    Append(sanitizeFilename(UrlList[k]), ".md")

Filenames == {generateFilename(k) : k \in 1..Len(UrlList)}

\* the sequences of pairwise distinct URLs of length 1..MaxRunUrls
Runs ==
    {r \in UNION {[1..n -> 1..Len(UrlList)] : n \in 1..MaxRunUrls} :
        \A i, j \in 1..Len(r) : i # j => r[i] # r[j]}

EmptyFolder == [f \in Filenames |-> "absent"]

\* the content converted from URL k
contentOf(k) == UrlList[k].href

InitWriter ==
    /\ wUrls \in Runs
    /\ wI = 1
    /\ wSkip \in BOOLEAN
    /\ fs \in {EmptyFolder} \cup
              {[EmptyFolder EXCEPT ![generateFilename(k)] = "old"] :
                   k \in 1..Len(UrlList)}
    /\ wLog = <<>>
    /\ ClassifyIdle
    /\ RetryIdle
    /\ NormalizeIdle
    /\ NavIdle
    /\ PipeIdle
    /\ ExitIdle
    /\ PolicyIdle
    /\ CliIdle
    /\ ConvertIdle
    /\ BrowserIdle

\* what a writeMarkdown call leaves in the log
Written(k, name, skipped, before) ==
    [url |-> k, filepath |-> name, success |-> ~skipped, skipped |-> skipped,
     before |-> before]

WriteMarkdownSkipsAfterWriting ==
    /\ wI \in 1..Len(wUrls)
    /\ LET name == generateFilename(wUrls[wI])
       IN /\ wSkip /\ fs[name] # "absent"
          /\ fs' = [fs EXCEPT ![name] = contentOf(wUrls[wI])]
          /\ wLog' = Append(wLog, Written(wUrls[wI], name, TRUE, fs[name]))
    /\ wI' = wI + 1
    /\ UNCHANGED <<wUrls, wSkip,
                   classifyVars, retryVars, normVars, navVars, pipeVars,
                   exitVars, polVars, cliVars,
                   convVars,
                   browserVars>>

\* writeMarkdown finds the file and returns { success: false, skipped: true }
WriteMarkdownSkips ==
    /\ wI \in 1..Len(wUrls)
    /\ LET name == generateFilename(wUrls[wI])
       IN /\ wSkip /\ fs[name] # "absent"
          /\ wLog' = Append(wLog, Written(wUrls[wI], name, TRUE, fs[name]))
    /\ wI' = wI + 1
    /\ UNCHANGED <<wUrls, wSkip, fs,
                   classifyVars, retryVars, normVars, navVars, pipeVars,
                   exitVars, polVars, cliVars,
                   convVars,
                   browserVars>>

\* writeMarkdown calls writeToFile and returns { success: true }
WriteMarkdownWrites ==
    /\ wI \in 1..Len(wUrls)
    /\ LET name == generateFilename(wUrls[wI])
       IN /\ ~(wSkip /\ fs[name] # "absent")
          /\ fs' = [fs EXCEPT ![name] = contentOf(wUrls[wI])]
          /\ wLog' = Append(wLog, Written(wUrls[wI], name, FALSE, fs[name]))
    /\ wI' = wI + 1
    /\ UNCHANGED <<wUrls, wSkip,
                   classifyVars, retryVars, normVars, navVars, pipeVars,
                   exitVars, polVars, cliVars,
                   convVars,
                   browserVars>>

\* writeToFile throws: processUrl reports the document as failed
WriteMarkdownThrows ==
    /\ wI \in 1..Len(wUrls)
    /\ LET name == generateFilename(wUrls[wI])
       IN ~(wSkip /\ fs[name] # "absent")
    /\ wI' = wI + 1
    /\ UNCHANGED <<wUrls, wSkip, fs, wLog,
                   classifyVars, retryVars, normVars, navVars, pipeVars,
                   exitVars, polVars, cliVars,
                   convVars,
                   browserVars>>

NextWriter ==
    \/ WriteMarkdownSkips
    \/ WriteMarkdownWrites
    \/ WriteMarkdownThrows

SpecWriter == InitWriter /\ [][NextWriter]_vars

\* the call of removeNavigationMenus has returned
NavReturned == navI = Len(navLines) + 2

\* the lines of `lines` that are not blank, in order
nonBlank(lines) == SelectSeq(lines, LAMBDA l : ~isWhitespace(l))

\* the input lines that the loop retained, in order
RetainedLines ==
    LET at == SelectSeq([j \in 1..Len(navTrace) |-> j],
                        LAMBDA j : navTrace[j].keep)
    IN [k \in 1..Len(at) |-> navLines[at[k]]]

\* `lines` with the white space before its first line and after its last
\* line removed
EdgeTrimmed(lines) ==
    [k \in 1..Len(lines) |->
        LET l == IF k = 1 THEN trimStart(lines[k]) ELSE lines[k]
        IN IF k = Len(lines) THEN trimEnd(l) ELSE l]

\* a line met in NORMAL that no drop rule matches
UnmatchedInNormal(j) ==
    /\ navTrace[j].before = 0
    /\ navStep(navLines, j, 0).rule = "retain"

\* C25 as stated: every non-blank line of the output is, character for
\* character, a line of the input, the retained lines keep their order, and
\* a non-blank line met in NORMAL that no drop rule matches is in the output.
C25_Original ==
    NavReturned =>
        /\ nonBlank(navResult) = nonBlank(RetainedLines)
        /\ \A j \in 1..Len(navTrace) :
              (UnmatchedInNormal(j) /\ ~isWhitespace(navLines[j])) =>
                  \E k \in 1..Len(navResult) : navResult[k] = navLines[j]

\* C25: the non-blank lines of the output are the non-blank input lines that
\* the loop retained, in input order and unchanged, except that the first of
\* them has lost its leading white space and the last its trailing white
\* space; a line met in NORMAL that no drop rule matches is retained.
C25_OnlyWholeLinesDeleted ==
    /\ cleaned = RetainedLines
    /\ \A j \in 1..Len(navTrace) : UnmatchedInNormal(j) => navTrace[j].keep
    /\ NavReturned =>
          nonBlank(navResult) = EdgeTrimmed(nonBlank(RetainedLines))

\* a returned call that dropped a line, kept two, and trimmed the trailing
\* white space of the last one
C25_Witness ==
    /\ NavReturned
    /\ Len(navLines) >= 3
    /\ navLines[Len(navLines)] = "Closing text  "
    /\ navResult = <<"Intro text", "Closing text">>
    /\ \E j \in 1..Len(navTrace) : ~navTrace[j].keep

(***************************************************************************)
(* Properties of the pipeline (checked under SpecPipeline).                *)
(***************************************************************************)
Running == {d \in 1..urls : docStage[d] \in InProgress}

\* event j of the log is the start of a document, and every document from
\* `from` up to the one before it has finished earlier
StartsAfterFinishOf(j, from) ==
    \A e \in from..(pipeLog[j][2] - 1) :
        \E i \in 1..(j - 1) : pipeLog[i] = <<"finish", e>>

OneAtATime ==
    /\ Cardinality(Running) <= 1
    /\ \A j \in 1..Len(pipeLog) :
          pipeLog[j][1] = "start" => StartsAfterFinishOf(j, 1)

\* the first document of the batch of scrapeUrls that holds document d
BatchStart(d) == d - ((d - 1) % ScrapeConcurrency)

C20_OneResultPerUrl ==
    pipeOp = "processAllUrls" =>
        /\ Len(results) = Cardinality({d \in 1..urls : docStage[d] \in Settled})
        /\ \A k \in 1..Len(results) :
              /\ results[k].url = k
              /\ results[k].success <=> docStage[k] = "done"
              /\ ~results[k].success <=> docStage[k] = "failed"
              /\ ~results[k].success => results[k].error \in InProgress
        /\ pipePc = "returned" => Len(results) = urls

\* a returned call whose first three documents failed in the three stages
\* and whose fourth document succeeded
C20_Witness ==
    /\ pipeOp = "processAllUrls"
    /\ pipePc = "returned"
    /\ Len(results) = 4
    /\ results[1] = [url |-> 1, success |-> FALSE, error |-> "scrape"]
    /\ results[2] = [url |-> 2, success |-> FALSE, error |-> "convert"]
    /\ results[3] = [url |-> 3, success |-> FALSE, error |-> "write"]
    /\ results[4].success

\* C21: once every document has been processed the run ends with exit
\* status 1 when at least one document failed for good, and with status 0
\* when none failed (skipped documents are not failures).
C21_ExitStatus ==
    /\ pipePc = "exited" =>
          /\ Len(results) = urls
          /\ \A d \in 1..urls : docStage[d] \in Settled
          /\ exitCode = 1 <=> \E d \in 1..urls : docStage[d] = "failed"
          /\ exitCode = 0 <=> \A d \in 1..urls : docStage[d] = "done"
          /\ stats.failed = Cardinality({d \in 1..urls : docStage[d] = "failed"})
    /\ pipePc # "exited" => exitCode = -1

\* a run that ends with status 1 although its last two documents succeeded,
\* one of them skipped
C21_Witness ==
    /\ pipePc = "exited"
    /\ exitCode = 1
    /\ urls = 3
    /\ ~results[1].success
    /\ results[2] = [url |-> 2, success |-> TRUE, error |-> "skipped"]
    /\ results[3] = [url |-> 3, success |-> TRUE, error |-> "none"]

\* the results that satisfy P, in order
resultsWhere(P(_)) == SelectSeq(results, P)

\* C34: generateStats yields total = number of results = successful +
\* failed; errors holds the error of each failed result, one per failed
\* result and in input order; skipped counts the successful results whose
\* write was skipped, so skipped <= successful.
C34_StatsConsistent ==
    pipePc = "exited" =>
        LET failedOnes == resultsWhere(LAMBDA r : ~r.success)
            skippedOnes == resultsWhere(LAMBDA r : /\ r.success
                                                   /\ r.error = "skipped")
        IN /\ stats.total = Len(results)
           /\ stats.total = stats.successful + stats.failed
           /\ stats.failed = Len(failedOnes)
           /\ stats.errors = [k \in 1..Len(failedOnes) |-> failedOnes[k].error]
           /\ stats.skipped = Len(skippedOnes)
           /\ stats.skipped <= stats.successful

\* two failures at different stages, one skipped and one written document
C34_Witness ==
    /\ pipePc = "exited"
    /\ stats.total = 4
    /\ stats.failed = 2
    /\ stats.errors[1] # stats.errors[2]
    /\ stats.skipped = 1
    /\ stats.successful = 2

(***************************************************************************)
(* Properties of the navigation detector (checked under SpecNav).          *)
(* skipMode 0 is NORMAL, 1 is IN_MENU_LIST, 2 is IN_MENU_SECTION.          *)
(***************************************************************************)
\* C14: once a run of list-marker lines has been detected as a menu, every
\* list-marker line of the run is dropped, and the first following line
\* that is not empty and does not start with a list marker is handled as a
\* line met in NORMAL: the detector ends in the state, and the line has the
\* fate, that the NORMAL rules give it (retained when none of them drops it).
C14_MenuListRun ==
    \A j \in 1..Len(navTrace) :
        LET t == trim(navLines[j])
            normal == navStep(navLines, j, 0)
        IN /\ navTrace[j].rule = "menuList" =>
                 ~navTrace[j].keep /\ navTrace[j].after = 1
           /\ (navTrace[j].before = 1 /\ startsWithDash(t)) =>
                 ~navTrace[j].keep /\ navTrace[j].after = 1
           /\ (navTrace[j].before = 1 /\ t # "" /\ ~startsWithDash(t)) =>
                 /\ navTrace[j].after = normal.mode
                 /\ navTrace[j].keep = normal.keep

\* C15: in IN_MENU_SECTION every line is dropped, and the detector leaves
\* the state exactly on a blank line whose following line does not start
\* with a list marker, and then for NORMAL.
C15_MenuSectionEnds ==
    \A j \in 1..Len(navTrace) :
        navTrace[j].before = 2 =>
            LET t == trim(navLines[j])
                endsSection == /\ t = ""
                               /\ j + 1 <= Len(navLines)
                               /\ ~startsWithDash(trim(navLines[j + 1]))
            IN /\ ~navTrace[j].keep
               /\ navTrace[j].after = IF endsSection THEN 0 ELSE 2

\* the bare section-header words of the alphabet
SectionHeaderWords == {"menu", "apps"}

\* C16: from NORMAL, a line that consists solely of a bare section-header
\* word ("menu", "apps", ...) is dropped and puts the detector in
\* IN_MENU_SECTION.
C16_HeaderEntersSection ==
    \A j \in 1..Len(navTrace) :
        (navTrace[j].before = 0 /\ trim(navLines[j]) \in SectionHeaderWords) =>
            ~navTrace[j].keep /\ navTrace[j].after = 2


(***************************************************************************)
(* Properties of the retry policies                                        *)
(***************************************************************************)

\* C27: every retry policy the program accepts or constructs has
\* maxAttempts >= 1, baseDelay > 0 and maxDelay >= baseDelay, and the
\* operation run under it is invoked at least once.
C27_PolicyWellFormed ==
    /\ polPc \in {"accepted", "ran"} =>
          /\ polResult.maxAttempts >= 1
          /\ polResult.baseDelay > 0
          /\ polResult.maxDelay >= polResult.baseDelay
    /\ polPc = "ran" => polInvoked >= 1


(***************************************************************************)
(* Properties of the command line                                          *)
(***************************************************************************)

\* C30: when the command line asks for overwriting (the last of the
\* overwrite and continue flags is an overwrite flag), a document whose
\* target file exists is written again; a document is skipped only when
\* overwriting is not asked for.
C30_OverwriteRewrites ==
    cliPc = "done" =>
        /\ args.overwrite /\ targetExists => writeResult = "written"
        /\ writeResult = "skipped" => ~args.overwrite /\ targetExists


\* the name has been determined
Named == cliPc \in {"named", "pipeline", "done"}

\* C31: the folder name comes from the first applicable source in the
\* order --name flag, scrap-folder-name.txt (whether or not the terminal is
\* interactive), interactive menu (only without such a file), timestamp.
C31_FolderNamePriority ==
    Named =>
        nameSource = IF args.runName # "" THEN "flag"
                     ELSE IF nameFileExists THEN "file"
                     ELSE IF isTTY THEN "menu"
                     ELSE "timestamp"


OverwriteFlags == {"--overwrite", "-o"}
ContinueFlags == {"--continue", "-c"}
HelpFlags == {"--help", "-h"}
ValueOptions == {"--name", "-n", "--output-dir", "-d"}

RECURSIVE optionPositionsFrom(_, _)
\* the positions of av, from i on, that are read as options and not as the
\* value of the value-taking option before them
optionPositionsFrom(av, i) ==
    IF i > Len(av) THEN {}
    ELSE {i} \cup optionPositionsFrom(av,
                    IF av[i] \in ValueOptions /\ i + 1 <= Len(av)
                    THEN i + 2 ELSE i + 1)

OptionPositions == optionPositionsFrom(argv, 1)

Last(S) == CHOOSE i \in S : \A j \in S : j <= i

ParseFinished == cliPc \notin {"idle", "parse"}

\* C32 as stated: overwrite and continue are opposite and fixed by the last
\* overwrite or continue flag anywhere in the sequence; a value-taking
\* option that is the last argument leaves its field null.
C32_Original ==
    ParseFinished =>
        LET F == {i \in 1..Len(argv) :
                    argv[i] \in OverwriteFlags \cup ContinueFlags}
        IN /\ args.overwrite = ~args.continue
           /\ args.overwrite = (F # {} /\ argv[Last(F)] \in OverwriteFlags)
           /\ (argv # <<>> /\ argv[Len(argv)] \in {"--name", "-n"})
                 => args.runName = ""

\* C32: overwrite and continue are opposite in every state of the parse;
\* they are fixed by the last overwrite or continue flag that stands at an
\* option position (continue when there is none); a value-taking option
\* without a following argument leaves its field as it was, which is the
\* value of the last such option that had one, or null; help is set by a
\* help flag at an option position; nothing else changes anything.
C32_FlagsOpposite ==
    /\ args.overwrite = ~args.continue
    /\ ParseFinished =>
        LET F == {i \in OptionPositions :
                    argv[i] \in OverwriteFlags \cup ContinueFlags}
            N == {i \in OptionPositions :
                    argv[i] \in {"--name", "-n"} /\ i < Len(argv)}
        IN /\ args.overwrite = (F # {} /\ argv[Last(F)] \in OverwriteFlags)
           /\ args.runName = IF N = {} THEN "" ELSE argv[Last(N) + 1]
           /\ args.outputDir = ""
           /\ args.showHelp = \E i \in OptionPositions : argv[i] \in HelpFlags

\* overwrite, then continue, then overwrite again
C32_Witness ==
    /\ ParseFinished
    /\ Len(argv) = 3
    /\ argv[1] \in OverwriteFlags
    /\ argv[2] \in ContinueFlags
    /\ argv[3] \in OverwriteFlags
    /\ args.overwrite


(***************************************************************************)
(* Properties of the writer                                                *)
(***************************************************************************)

\* C33: with skipExisting in effect, a writeMarkdown call that finds its
\* target file reports the document as skipped and not written, and the
\* file keeps the content it had; a call writes only when the file did not
\* exist, and the file then holds that document's content until the end of
\* the run.
C33_ExistingFileSkipped ==
    wSkip =>
        \A i \in 1..Len(wLog) :
            /\ wLog[i].filepath = generateFilename(wLog[i].url)
            /\ wLog[i].before # "absent" =>
                  /\ wLog[i].skipped /\ ~wLog[i].success
                  /\ fs[wLog[i].filepath] = wLog[i].before
            /\ ~wLog[i].skipped =>
                  /\ wLog[i].before = "absent"
                  /\ fs[wLog[i].filepath] = contentOf(wLog[i].url)

\* a document was skipped because of a file that was there before the run,
\* and that file still has its old content
C33_Witness ==
    /\ wSkip
    /\ \E i \in 1..Len(wLog) :
          /\ wLog[i].skipped
          /\ wLog[i].before = "old"
          /\ fs[wLog[i].filepath] = "old"

\* C38: in a run into an empty folder no two URLs get the same file name,
\* no document is skipped, and every document written has its own file
\* with its own content.
C38_OwnFilePerUrl ==
    (wSkip /\ \A f \in Filenames : fs[f] # "old") =>
        /\ \A i, j \in 1..Len(wLog) :
              i # j => wLog[i].filepath # wLog[j].filepath
        /\ \A i \in 1..Len(wLog) :
              /\ ~wLog[i].skipped
              /\ fs[wLog[i].filepath] = contentOf(wLog[i].url)


(***************************************************************************)
(* More properties of the navigation detector (checked under SpecNav).     *)
(***************************************************************************)

\* the changes of state the detector is said to make
AllowedModeChanges == {<<0, 2>>, <<0, 1>>, <<1, 0>>, <<2, 0>>}

\* C35: every scan starts in NORMAL; the state changes only along
\* NORMAL -> IN_MENU_SECTION, NORMAL -> IN_MENU_LIST, IN_MENU_LIST -> NORMAL
\* and IN_MENU_SECTION -> NORMAL; the section-header rule and the menu-list
\* rule apply only to a line met in NORMAL.
C35_ModeChanges ==
    /\ navTrace # <<>> => navTrace[1].before = 0
    /\ navTrace = <<>> /\ navI = 1 => skipMode = 0
    /\ \A j \in 1..Len(navTrace) :
          /\ navTrace[j].before # navTrace[j].after =>
                <<navTrace[j].before, navTrace[j].after>> \in AllowedModeChanges
          /\ navTrace[j].rule \in {"sectionHeader", "menuList"} =>
                navTrace[j].before = 0


(***************************************************************************)
(* Properties of the conversion (checked under SpecConvert).               *)
(***************************************************************************)

\* C37: when the first conversion attempt fails with an error that
\* isRetryableError accepts, the run does not report a failure before the
\* conversion has been attempted a second time.
C37_ConversionRetried ==
    (/\ rpc = "raised"
     /\ convThrown # <<>>
     /\ isRetryableError(convThrown[1])) => Len(calls) = 2


(***************************************************************************)
(* Properties of the fetch operation (checked under SpecScrape).           *)
(***************************************************************************)

AllClosed == \A k \in 1..Len(browsers) : browsers[k] = "closed"

\* C39: whenever no attempt is running (before an attempt starts, during
\* the sleep, and after scrapeUrl returned or raised) every browser that
\* was launched is closed; while an attempt runs only the browser of that
\* attempt can be open, and each attempt launches at most one.
C39_BrowsersClosed ==
    /\ rpc # "running" => AllClosed
    /\ rpc = "running" =>
          /\ \A k \in 1..(Len(browsers) - 1) : browsers[k] = "closed"
          /\ opPc = "launch" => AllClosed
    /\ Len(browsers) <= Len(calls)

\* three attempts each launched a browser, and the run raised
C39_Witness ==
    /\ rpc = "raised"
    /\ Len(browsers) = 3
    /\ Len(calls) = 3
    /\ AllClosed

====
